---- MODULE Spec2Model ----
(***************************************************************************)
(* A model of the engineering-design plugin's scripts: the six runners     *)
(* (cadquery_runner, skidl_runner, pyspice_sim, schemdraw_render,          *)
(* preview_generator, integration_checker), the script loaders and the     *)
(* E24 rounding of the circuit templates.                                  *)
(*                                                                         *)
(* A run of a runner is one behaviour of Spec: Init fixes the command line *)
(* and the files present, every action is one stage of the runner's main,  *)
(* and every call into a wrapped library either returns or raises (the     *)
(* action draws the outcome with \E).  Text is modelled as tuples of       *)
(* strings: a line on standard error is the tuple of its parts, a path is  *)
(* the tuple <<base name, suffix>>, Python's None for a path is <<>>.      *)
(***************************************************************************)
EXTENDS Integers, Sequences, FiniteSets, TLC

VARIABLES
    runner,       \* the script whose main is running
    args,         \* the parsed command line (argparse namespace)
    env,          \* what the run finds on disk: the input path exists or not
    pc,           \* the stage main is about to execute
    local,        \* main's local variables (result, formats, circuit, ...)
    result_data,  \* main's result_data dictionary
    stderr,       \* the lines written to standard error, in order
    json_out,     \* whether result_data was printed as JSON
    fs,           \* the output directory and the artifacts written
    exit_status,  \* the process exit status once pc = "exited"
    raised,       \* history: the exceptions raised by calls, in order
    stages        \* history: the stages executed, in order

vars == <<runner, args, env, pc, local, result_data, stderr, json_out, fs,
          exit_status, raised, stages>>

\* ------------------------------------------------------------------ bounds

\* The longest --format list of a cadquery_runner run.
MaxFormats == 2

\* The values given to round_to_e24 run from 0.01 to MaxCenti / 100 ohm ...
MaxCenti == 999

\* ... times ten to the power 0..MaxDecade.
MaxDecade == 2

\* The largest VIN_VOLTAGE of a voltage divider, in tenths of a volt.
MaxVin == 50

\* The most mounting holes of a PCB and the most bosses of an enclosure.
MaxHoles == 2

\* The longest list of check results.
MaxResults == 3
\* Longest parts list of a circuit handed to generate_bom.
MaxParts == 3

\* ----------------------------------------------------------------- helpers

None == "None"

Range(s) == {s[i] : i \in 1..Len(s)}

SeqsUpTo(S, n) == UNION {[1..k -> S] : k \in 1..n}

\* The process ends with the given status (sys.exit, or falling off main).
Exit(code) ==
    /\ pc' = "exited"
    /\ exit_status' = code

\* A stage of main ran (history only).
Ran(stage) == stages' = Append(stages, stage)

\* A call raised (history only).  `handled` says where the exception ends:
\* "top" in main's except Exception, "import" in the except ImportError of the
\* library import, "local" in a handler of the function that made the call,
\* "uncaught" when it leaves main.
Raise(where, exc, handled) ==
    raised' = Append(raised, [where |-> where, exc |-> exc, handled |-> handled])

NoRaise == UNCHANGED raised

\* ------------------------------------------------------ script loading

\* The names load_script looks for, in order.
CqResultNames == <<"result", "model", "shape", "part", "assembly">>

\* The names load_circuit looks for, in order.
SpiceResultNames == <<"circuit", "cir", "netlist">>

\* for name in names: if hasattr(module, name): ...; break
\* The index of the first listed name the module defines, 0 if none.
FirstDefined(names, module) ==
    LET hits == {i \in 1..Len(names) : names[i] \in DOMAIN module}
    IN  IF hits = {} THEN 0
        ELSE CHOOSE i \in hits : \A j \in hits : i <= j

\* The lookup after exec_module: result = None; the loop; if result is None:
\* raise ValueError; return result.
FindResult(names, module) ==
    LET i == FirstDefined(names, module)
        result == IF i = 0 THEN None ELSE module[names[i]]
    IN  IF result = None
        THEN [ok |-> FALSE, exc |-> "ValueError", value |-> None]
        ELSE [ok |-> TRUE, exc |-> None, value |-> result]

\* cadquery_runner.load_script over an executed module.
load_script(module) == FindResult(CqResultNames, module)

\* pyspice_sim.load_circuit over an executed module.
load_circuit(module) == FindResult(SpiceResultNames, module)

\* ------------------------------------------------------ cadquery_runner

\* The raw items of --format after split(','): plain, upper case, padded.
FormatTokens == {"step", "stl", "dxf", "svg", "png", "obj", "STEP", " stl ", "PNG"}

\* str.strip()
Strip(t) == IF t = " stl " THEN "stl" ELSE t

\* str.lower()
Lower(t) == IF t = "STEP" THEN "step" ELSE IF t = "PNG" THEN "png" ELSE t

\* formats = [f.strip() for f in args.format.split(',')]
SplitFormats(raw) == [i \in 1..Len(raw) |-> Strip(raw[i])]

\* The modules a script given to a runner may execute to.
CqModules ==
    { [n \in {"result"} |-> "solid"],
      [n \in {"shape", "part"} |-> "solid"],
      [n \in {"result", "model"} |-> IF n = "result" THEN None ELSE "solid"],
      [n \in {"other"} |-> "solid"] }

\* except Exception as e: of cadquery_runner.main
CqExcept(where, e) ==
    /\ Raise(where, e, "top")
    /\ result_data' = [result_data EXCEPT !.errors = Append(@, e)]
    /\ stderr' = Append(stderr, <<"Error: ", e>>)
    /\ Exit(1)

\* if not args.script.exists(): ...; base_name; formats; result_data = {...}
CqCheckScript ==
    /\ runner = "cadquery_runner" /\ pc = "check_input"
    /\ Ran("check_input")
    /\ IF ~env.input_exists
       THEN /\ stderr' = Append(stderr, <<"Error: Script not found: ", "script">>)
            /\ Exit(1)
            /\ UNCHANGED <<local, result_data>>
       ELSE /\ local' = [local EXCEPT !.formats = SplitFormats(args.format)]
            /\ result_data' = [validation |-> [valid |-> FALSE, errors |-> <<>>],
                               exported_files |-> <<>>,
                               preview |-> <<>>,
                               errors |-> <<>>]
            /\ pc' = "import"
            /\ UNCHANGED <<stderr, exit_status>>
    /\ UNCHANGED <<runner, args, env, json_out, fs, raised>>

\* try: import cadquery as cq / except ImportError: ...; sys.exit(1)
CqImport ==
    /\ runner = "cadquery_runner" /\ pc = "import"
    /\ Ran("import")
    /\ \E ok \in BOOLEAN :
        IF ok
        THEN /\ pc' = "load"
             /\ NoRaise
             /\ UNCHANGED <<stderr, exit_status>>
        ELSE /\ Raise("import cadquery", "ImportError", "import")
             /\ stderr' = Append(stderr, <<"Error: CadQuery is not installed">>)
             /\ Exit(1)
    /\ UNCHANGED <<runner, args, env, local, result_data, json_out, fs>>

\* result = load_script(args.script)
CqLoad ==
    /\ runner = "cadquery_runner" /\ pc = "load"
    /\ Ran("load")
    /\ \E outcome \in {"no_loader", "exec_raises", "executed"}, module \in CqModules :
        CASE outcome = "no_loader" ->
               /\ CqExcept("load_script", "Cannot load script")
               /\ UNCHANGED <<local, fs>>
          [] outcome = "exec_raises" ->
               /\ CqExcept("exec_module", "script error")
               /\ UNCHANGED local
               /\ fs' = [fs EXCEPT !.script_run = TRUE]
          [] outcome = "executed" ->
               /\ fs' = [fs EXCEPT !.script_run = TRUE]
               /\ LET r == load_script(module)
                  IN  IF r.ok
                      THEN /\ local' = [local EXCEPT !.result = r.value]
                           /\ pc' = "validate"
                           /\ NoRaise
                           /\ UNCHANGED <<result_data, stderr, exit_status>>
                      ELSE /\ CqExcept("load_script", "result variable not found")
                           /\ UNCHANGED local
    /\ UNCHANGED <<runner, args, env, json_out>>

\* Faulty variant of validate_shape: a shape that is not valid makes it raise.
validate_shape_strict(valid, fails) ==
    [valid |-> IF fails = "isValid" THEN FALSE ELSE valid,
     errors |-> IF fails # "none" THEN <<fails>> ELSE <<>>]

\* validate_shape(result): the returned info.  isValid() answers `valid`;
\* `fails` names the library call that raises inside the try, if any.
validate_shape(valid, fails) ==
    LET e0 == <<>>
        v1 == IF fails = "isValid" THEN FALSE ELSE valid
        e1 == IF fails # "isValid" /\ ~valid
              THEN Append(e0, "shape is invalid") ELSE e0
        e2 == IF fails # "none" THEN Append(e1, fails) ELSE e1
    IN  [valid |-> v1, errors |-> e2]

\* validation = validate_shape(result); the warning; the size lines
CqValidate ==
    /\ runner = "cadquery_runner" /\ pc = "validate"
    /\ Ran("validate")
    /\ \E valid \in BOOLEAN, fails \in {"none", "isValid", "Volume", "BoundingBox"} :
        LET validation == validate_shape(valid, fails)
        IN  /\ result_data' = [result_data EXCEPT !.validation = validation]
            /\ local' = [local EXCEPT !.is_valid =
                            IF fails = "isValid" THEN "raised"
                            ELSE IF valid THEN "True" ELSE "False"]
            /\ IF fails = "none" THEN NoRaise
               ELSE Raise("validate_shape", fails, "local")
            /\ stderr' = IF ~validation.valid
                         THEN Append(stderr, <<"Warning: Shape validation failed: ">>
                                              \o validation.errors)
                         ELSE stderr
    /\ pc' = "export"
    /\ UNCHANGED <<runner, args, env, json_out, fs, exit_status>>

\* The formats export_model writes a file for.
ExportFormats == {"step", "stl", "dxf", "svg"}

\* Faulty variant of ExportedFrom: the first export that raises ends the loop.
RECURSIVE ExportedUntilFailure(_, _, _)
ExportedUntilFailure(formats, fails, i) ==
    IF i > Len(formats) \/ i \in fails THEN <<>>
    ELSE LET fmt == Lower(Strip(formats[i]))
             here == IF fmt \in ExportFormats
                     THEN << <<"base", ".", fmt>> >> ELSE <<>>
         IN  here \o ExportedUntilFailure(formats, fails, i + 1)

\* export_model's loop: the paths appended for formats[i..], `fails` the
\* positions whose exporter call raises.
RECURSIVE ExportedFrom(_, _, _)
ExportedFrom(formats, fails, i) ==
    IF i > Len(formats) THEN <<>>
    ELSE LET fmt == Lower(Strip(formats[i]))
             here == IF fmt \in ExportFormats /\ i \notin fails
                     THEN << <<"base", ".", fmt>> >> ELSE <<>>
         IN  here \o ExportedFrom(formats, fails, i + 1)

\* Faulty variant of ExportStderrFrom: the except clause of the loop says nothing.
RECURSIVE ExportStderrSilent(_, _, _)
ExportStderrSilent(formats, fails, i) ==
    IF i > Len(formats) THEN <<>>
    ELSE LET fmt == Lower(Strip(formats[i]))
             here == IF fmt \in ExportFormats \/ fmt = "png" THEN <<>>
                     ELSE << <<"Warning: Unknown format ", fmt>> >>
         IN  here \o ExportStderrSilent(formats, fails, i + 1)

\* export_model's loop: the lines it prints to standard error.
RECURSIVE ExportStderrFrom(_, _, _)
ExportStderrFrom(formats, fails, i) ==
    IF i > Len(formats) THEN <<>>
    ELSE LET fmt == Lower(Strip(formats[i]))
             here == IF fmt \in ExportFormats
                     THEN IF i \in fails
                          THEN << <<"Error exporting ", fmt, ": ", "export error">> >>
                          ELSE <<>>
                     ELSE IF fmt = "png" THEN <<>>
                          ELSE << <<"Warning: Unknown format ", fmt>> >>
         IN  here \o ExportStderrFrom(formats, fails, i + 1)

\* export_model(result, output_dir, base_name, formats): the returned list
export_model(formats, fails) == ExportedFrom(formats, fails, 1)

\* The exceptions export_model catches, as history records, in order.
RECURSIVE ExportRaisedFrom(_, _, _)
ExportRaisedFrom(formats, fails, i) ==
    IF i > Len(formats) THEN <<>>
    ELSE (IF i \in fails
          THEN <<[where |-> "export", exc |-> "export error", handled |-> "local",
                  fmt |-> Lower(Strip(formats[i])), at |-> i]>>
          ELSE <<>>) \o ExportRaisedFrom(formats, fails, i + 1)

\* exported = export_model(...); result_data["exported_files"] = exported
CqExport ==
    /\ runner = "cadquery_runner" /\ pc = "export"
    /\ Ran("export")
    /\ \E mkdir_ok \in BOOLEAN :
        IF ~mkdir_ok
        THEN /\ CqExcept("mkdir", "cannot create output directory")
             /\ UNCHANGED fs
        ELSE \E fails \in SUBSET {i \in 1..Len(local.formats) :
                                    Lower(local.formats[i]) \in ExportFormats} :
               LET exported == export_model(local.formats, fails)
               IN  /\ result_data' = [result_data EXCEPT !.exported_files = exported]
                   /\ stderr' = stderr \o ExportStderrFrom(local.formats, fails, 1)
                   /\ raised' = raised \o ExportRaisedFrom(local.formats, fails, 1)
                   /\ fs' = [fs EXCEPT !.out_dir = TRUE,
                                       !.files = @ \cup Range(exported)]
                   /\ pc' = "preview"
                   /\ UNCHANGED exit_status
    /\ UNCHANGED <<runner, args, env, local, json_out>>

\* if args.preview or 'png' in formats: preview = generate_preview(...)
CqPreview ==
    /\ runner = "cadquery_runner" /\ pc = "preview"
    /\ Ran("preview")
    /\ IF args.preview \/ "png" \in Range(local.formats)
       THEN \E outcome \in {"ok", "import_error", "error"} :
              CASE outcome = "ok" ->
                     /\ result_data' = [result_data EXCEPT
                                           !.preview = <<"base", "-preview.png">>]
                     /\ fs' = [fs EXCEPT !.files = @ \cup {<<"base", "-preview.png">>}]
                     /\ NoRaise
                     /\ UNCHANGED stderr
                [] outcome = "import_error" ->
                     /\ Raise("generate_preview", "ImportError", "local")
                     /\ stderr' = Append(stderr,
                            <<"Preview generation requires additional libraries: ",
                              "ImportError">>)
                     /\ UNCHANGED <<result_data, fs>>
                [] outcome = "error" ->
                     /\ Raise("generate_preview", "render error", "local")
                     /\ stderr' = Append(stderr,
                            <<"Error generating preview: ", "render error">>)
                     /\ UNCHANGED <<result_data, fs>>
       ELSE /\ NoRaise
            /\ UNCHANGED <<result_data, stderr, fs>>
    /\ pc' = "finish"
    /\ UNCHANGED <<runner, args, env, local, json_out, exit_status>>

\* print("\nDone!"); if args.json: print(json.dumps(result_data)); return
CqFinish ==
    /\ runner = "cadquery_runner" /\ pc = "finish"
    /\ Ran("finish")
    /\ json_out' = args.json
    /\ Exit(0)
    /\ UNCHANGED <<runner, args, env, local, result_data, stderr, fs, raised>>

CqArgs ==
    [format : SeqsUpTo(FormatTokens, MaxFormats), preview : BOOLEAN, json : BOOLEAN]

\* main's locals; is_valid is what shape.isValid() answered in validate_shape.
CqLocal == [formats |-> <<>>, result |-> None, is_valid |-> None]

\* ---------------------------------------------------------- skidl_runner

\* Faulty variant of SkExcept: the handler reports the error and forgets sys.exit(1).
SkExceptNoExit(where, e) ==
    /\ Raise(where, e, "top")
    /\ result_data' = [result_data EXCEPT !.errors = Append(@, e)]
    /\ stderr' = stderr \o << <<"Error: ", e>>, <<"Traceback: ", e>> >>
    /\ Exit(0)

\* except Exception as e: of skidl_runner.main (with traceback.print_exc())
SkExcept(where, e) ==
    /\ Raise(where, e, "top")
    /\ result_data' = [result_data EXCEPT !.errors = Append(@, e)]
    /\ stderr' = stderr \o << <<"Error: ", e>>, <<"Traceback: ", e>> >>
    /\ Exit(1)

\* An exception outside main's try: the interpreter prints the traceback and
\* the process ends with status 1.
Uncaught(where, e) ==
    /\ Raise(where, e, "uncaught")
    /\ stderr' = Append(stderr, <<"Traceback: ", e>>)
    /\ Exit(1)

\* if not args.script.exists(): ...; args.output.mkdir(...); result_data = {...}
SkCheckScript ==
    /\ runner = "skidl_runner" /\ pc = "check_input"
    /\ Ran("check_input")
    /\ IF ~env.input_exists
       THEN /\ stderr' = Append(stderr, <<"Error: Script not found: ", "script">>)
            /\ Exit(1)
            /\ NoRaise
            /\ UNCHANGED <<result_data, fs>>
       ELSE \E mkdir_ok \in BOOLEAN :
              IF mkdir_ok
              THEN /\ fs' = [fs EXCEPT !.out_dir = TRUE]
                   /\ result_data' = [erc |-> [passed |-> TRUE, ran |-> FALSE],
                                      circuit_info |-> None,
                                      exported_files |-> <<>>,
                                      errors |-> <<>>]
                   /\ pc' = "import"
                   /\ NoRaise
                   /\ UNCHANGED <<stderr, exit_status>>
              ELSE /\ Uncaught("mkdir", "cannot create output directory")
                   /\ UNCHANGED <<result_data, fs>>
    /\ UNCHANGED <<runner, args, env, local, json_out>>

\* Faulty variant of SkImport: the ImportError is reported and main goes on to load
\* the script.
SkImportFallsThrough ==
    /\ runner = "skidl_runner" /\ pc = "import"
    /\ Ran("import")
    /\ \E outcome \in {"ok", "import_error"} :
        IF outcome = "ok"
        THEN /\ NoRaise
             /\ UNCHANGED stderr
        ELSE /\ Raise("import skidl", "ImportError", "import")
             /\ stderr' = Append(stderr, <<"Error: SKiDL is not installed">>)
    /\ pc' = "load"
    /\ UNCHANGED <<runner, args, env, local, result_data, json_out, fs, exit_status>>

\* try: from skidl import set_default_tool, KICAD; set_default_tool(KICAD)
\* except ImportError: ...; sys.exit(1)
SkImport ==
    /\ runner = "skidl_runner" /\ pc = "import"
    /\ Ran("import")
    /\ \E outcome \in {"ok", "import_error", "tool_error"} :
        CASE outcome = "ok" ->
               /\ pc' = "load"
               /\ NoRaise
               /\ UNCHANGED <<result_data, stderr, exit_status>>
          [] outcome = "import_error" ->
               /\ Raise("import skidl", "ImportError", "import")
               /\ stderr' = Append(stderr, <<"Error: SKiDL is not installed">>)
               /\ Exit(1)
               /\ UNCHANGED result_data
          [] outcome = "tool_error" ->
               SkExcept("set_default_tool", "tool error")
    /\ UNCHANGED <<runner, args, env, local, json_out, fs>>

\* load_script(args.script)
SkLoad ==
    /\ runner = "skidl_runner" /\ pc = "load"
    /\ Ran("load")
    /\ \E outcome \in {"no_loader", "exec_raises", "executed"} :
        CASE outcome = "no_loader" ->
               /\ SkExcept("load_script", "Cannot load script")
               /\ UNCHANGED fs
          [] outcome = "exec_raises" ->
               /\ SkExcept("exec_module", "script error")
               /\ fs' = [fs EXCEPT !.script_run = TRUE]
          [] outcome = "executed" ->
               /\ fs' = [fs EXCEPT !.script_run = TRUE]
               /\ pc' = "circuit_info"
               /\ NoRaise
               /\ UNCHANGED <<result_data, stderr, exit_status>>
    /\ UNCHANGED <<runner, args, env, local, json_out>>

\* circuit_info = get_circuit_info(); result_data["circuit_info"] = circuit_info
SkCircuitInfo ==
    /\ runner = "skidl_runner" /\ pc = "circuit_info"
    /\ Ran("circuit_info")
    /\ \E ok \in BOOLEAN :
        IF ok
        THEN /\ result_data' = [result_data EXCEPT !.circuit_info = "circuit"]
             /\ pc' = "erc"
             /\ NoRaise
             /\ UNCHANGED <<stderr, exit_status>>
        ELSE SkExcept("get_circuit_info", "circuit error")
    /\ UNCHANGED <<runner, args, env, local, json_out, fs>>

\* run_erc(): the returned result.  ERC() raises (`erc_raises`) or its captured
\* output holds an ERROR line (`error_line`).
run_erc(erc_raises, error_line) ==
    [passed |-> ~erc_raises /\ ~error_line, ran |-> TRUE]

\* Faulty variant of SkErc: an ERC that did not pass ends the run with status 1.
SkErcStopsOnFailure ==
    /\ runner = "skidl_runner" /\ pc = "erc"
    /\ Ran("erc")
    /\ IF args.no_erc
       THEN /\ pc' = "netlist"
            /\ NoRaise
            /\ UNCHANGED <<result_data, stderr, exit_status>>
       ELSE \E outcome \in {"ok", "import_error", "erc_raises", "error_line"} :
              CASE outcome = "import_error" -> SkExcept("import ERC", "ImportError")
                [] outcome = "ok" ->
                     /\ result_data' = [result_data EXCEPT !.erc = run_erc(FALSE, FALSE)]
                     /\ NoRaise
                     /\ pc' = "netlist"
                     /\ UNCHANGED <<stderr, exit_status>>
                [] OTHER ->
                     /\ result_data' = [result_data EXCEPT
                            !.erc = run_erc(outcome = "erc_raises", outcome = "error_line"),
                            !.errors = Append(@, "erc failed")]
                     /\ Raise("ERC", "erc failed", "top")
                     /\ stderr' = stderr \o << <<"Error: ", "erc failed">>,
                                               <<"Traceback: ", "erc failed">> >>
                     /\ Exit(1)
    /\ UNCHANGED <<runner, args, env, local, json_out, fs>>

\* if not args.no_erc: erc_result = run_erc(); result_data["erc"] = erc_result
SkErc ==
    /\ runner = "skidl_runner" /\ pc = "erc"
    /\ Ran("erc")
    /\ IF args.no_erc
       THEN /\ pc' = "netlist"
            /\ NoRaise
            /\ UNCHANGED <<result_data, stderr, exit_status>>
       ELSE \E outcome \in {"ok", "import_error", "erc_raises", "error_line"} :
              IF outcome = "import_error"
              THEN SkExcept("import ERC", "ImportError")
              ELSE /\ result_data' = [result_data EXCEPT !.erc =
                          run_erc(outcome = "erc_raises", outcome = "error_line")]
                   /\ IF outcome = "erc_raises"
                      THEN Raise("ERC", "erc error", "local") ELSE NoRaise
                   /\ pc' = "netlist"
                   /\ UNCHANGED <<stderr, exit_status>>
    /\ UNCHANGED <<runner, args, env, local, json_out, fs>>

\* generate_netlist(netlist_path); result_data["exported_files"].append(...)
SkNetlist ==
    /\ runner = "skidl_runner" /\ pc = "netlist"
    /\ Ran("netlist")
    /\ \E ok \in BOOLEAN :
        IF ok
        THEN /\ fs' = [fs EXCEPT !.files = @ \cup {<<"base", ".net">>}]
             /\ result_data' = [result_data EXCEPT
                                   !.exported_files = Append(@, <<"base", ".net">>)]
             /\ pc' = "bom"
             /\ NoRaise
             /\ UNCHANGED <<stderr, exit_status>>
        ELSE /\ SkExcept("generate_netlist", "netlist error")
             /\ UNCHANGED fs
    /\ UNCHANGED <<runner, args, env, local, json_out>>

\* Faulty variant of SkBom: a failed BOM sends main back to the netlist stage.
SkBomRetriesNetlist ==
    /\ runner = "skidl_runner" /\ pc = "bom"
    /\ Ran("bom")
    /\ \E ok \in BOOLEAN :
        IF ok
        THEN /\ pc' = "finish"
             /\ NoRaise
        ELSE /\ pc' = "netlist"
             /\ Raise("generate_bom", "bom error", "local")
    /\ UNCHANGED <<runner, args, env, local, result_data, stderr, json_out, fs,
                   exit_status>>

\* if args.bom: generate_bom(bom_path); result_data["exported_files"].append(...)
SkBom ==
    /\ runner = "skidl_runner" /\ pc = "bom"
    /\ Ran("bom")
    /\ IF ~args.bom
       THEN /\ pc' = "finish"
            /\ NoRaise
            /\ UNCHANGED <<result_data, stderr, exit_status, fs>>
       ELSE \E ok \in BOOLEAN :
              IF ok
              THEN /\ fs' = [fs EXCEPT !.files = @ \cup {<<"base", "-bom.csv">>}]
                   /\ result_data' = [result_data EXCEPT
                                         !.exported_files = Append(@, <<"base", "-bom.csv">>)]
                   /\ pc' = "finish"
                   /\ NoRaise
                   /\ UNCHANGED <<stderr, exit_status>>
              ELSE /\ SkExcept("generate_bom", "bom error")
                   /\ UNCHANGED fs
    /\ UNCHANGED <<runner, args, env, local, json_out>>

\* print("\nDone!"); if args.json: print(json.dumps(result_data)); return
SkFinish ==
    /\ runner = "skidl_runner" /\ pc = "finish"
    /\ Ran("finish")
    /\ json_out' = args.json
    /\ Exit(0)
    /\ UNCHANGED <<runner, args, env, local, result_data, stderr, fs, raised>>

SkArgs == [bom : BOOLEAN, no_erc : BOOLEAN, json : BOOLEAN]

SkLocal == [result |-> None]

\* ----------------------------------------------------------- pyspice_sim

\* The modules a circuit script given to pyspice_sim may execute to.
SpiceModules ==
    { [n \in {"circuit"} |-> "circuit"],
      [n \in {"cir", "netlist"} |-> "circuit"],
      [n \in {"circuit", "cir"} |-> IF n = "circuit" THEN None ELSE "circuit"],
      [n \in {"other"} |-> "circuit"] }

\* except Exception as e: of pyspice_sim.main (with traceback.print_exc())
SpExcept(where, e) ==
    /\ Raise(where, e, "top")
    /\ result_data' = [result_data EXCEPT !.errors = Append(@, e)]
    /\ stderr' = stderr \o << <<"Error: ", e>>, <<"Traceback: ", e>> >>
    /\ Exit(1)

\* if not args.script.exists(): ...; args.output.mkdir(...); result_data = {...}
SpCheckScript ==
    /\ runner = "pyspice_sim" /\ pc = "check_input"
    /\ Ran("check_input")
    /\ IF ~env.input_exists
       THEN /\ stderr' = Append(stderr, <<"Error: Script not found: ", "script">>)
            /\ Exit(1)
            /\ NoRaise
            /\ UNCHANGED <<result_data, fs>>
       ELSE \E mkdir_ok \in BOOLEAN :
              IF mkdir_ok
              THEN /\ fs' = [fs EXCEPT !.out_dir = TRUE]
                   /\ result_data' = [analysis |-> [type |-> None, files |-> <<>>],
                                      errors |-> <<>>]
                   /\ pc' = "import"
                   /\ NoRaise
                   /\ UNCHANGED <<stderr, exit_status>>
              ELSE /\ Uncaught("mkdir", "cannot create output directory")
                   /\ UNCHANGED <<result_data, fs>>
    /\ UNCHANGED <<runner, args, env, local, json_out>>

\* try: from PySpice... import ... / except ImportError: ...; sys.exit(1)
SpImport ==
    /\ runner = "pyspice_sim" /\ pc = "import"
    /\ Ran("import")
    /\ \E ok \in BOOLEAN :
        IF ok
        THEN /\ pc' = "load"
             /\ NoRaise
             /\ UNCHANGED <<stderr, exit_status>>
        ELSE /\ Raise("import PySpice", "ImportError", "import")
             /\ stderr' = Append(stderr, <<"Error: PySpice is not installed">>)
             /\ Exit(1)
    /\ UNCHANGED <<runner, args, env, local, result_data, json_out, fs>>

\* circuit = load_circuit(args.script)
SpLoad ==
    /\ runner = "pyspice_sim" /\ pc = "load"
    /\ Ran("load")
    /\ \E outcome \in {"no_loader", "exec_raises", "executed"}, module \in SpiceModules :
        CASE outcome = "no_loader" ->
               /\ SpExcept("load_circuit", "Cannot load script")
               /\ UNCHANGED <<local, fs>>
          [] outcome = "exec_raises" ->
               /\ SpExcept("exec_module", "script error")
               /\ UNCHANGED local
               /\ fs' = [fs EXCEPT !.script_run = TRUE]
          [] outcome = "executed" ->
               /\ fs' = [fs EXCEPT !.script_run = TRUE]
               /\ LET r == load_circuit(module)
                  IN  IF r.ok
                      THEN /\ local' = [local EXCEPT !.result = r.value]
                           /\ pc' = "analysis"
                           /\ NoRaise
                           /\ UNCHANGED <<result_data, stderr, exit_status>>
                      ELSE /\ SpExcept("load_circuit", "circuit variable not found")
                           /\ UNCHANGED local
    /\ UNCHANGED <<runner, args, env, json_out>>

\* The files run_dc_analysis, run_ac_analysis, run_transient_analysis write,
\* in order: the data file, then the plot (none for an operating point).
AnalysisFiles(kind, dc_source) ==
    CASE kind = "dc" /\ dc_source  -> << <<"base", "-dc.csv">>, <<"base", "-dc.png">> >>
      [] kind = "dc" /\ ~dc_source -> << <<"base", "-dc-op.csv">> >>
      [] kind = "ac"               -> << <<"base", "-ac.csv">>, <<"base", "-ac-bode.png">> >>
      [] kind = "tran"             -> << <<"base", "-tran.csv">>, <<"base", "-tran.png">> >>

\* if args.dc: ... elif args.ac: ... elif args.tran: ...; the Created lines
SpAnalysis ==
    /\ runner = "pyspice_sim" /\ pc = "analysis"
    /\ Ran("analysis")
    /\ LET files == AnalysisFiles(args.kind, args.dc_source)
       IN  \E written \in 0..Len(files), ok \in BOOLEAN :
             /\ ok => written = Len(files)
             /\ fs' = [fs EXCEPT !.files = @ \cup {files[i] : i \in 1..written}]
             /\ IF ok
                THEN /\ result_data' = [result_data EXCEPT
                            !.analysis = [type |-> args.kind, files |-> files]]
                     /\ pc' = "finish"
                     /\ NoRaise
                     /\ UNCHANGED <<stderr, exit_status>>
                ELSE SpExcept("analysis", "simulation error")
    /\ UNCHANGED <<runner, args, env, local, json_out>>

\* print("\nDone!"); if args.json: print(json.dumps(result_data)); return
SpFinish ==
    /\ runner = "pyspice_sim" /\ pc = "finish"
    /\ Ran("finish")
    /\ json_out' = args.json
    /\ Exit(0)
    /\ UNCHANGED <<runner, args, env, local, result_data, stderr, fs, raised>>

SpArgs == [kind : {"dc", "ac", "tran"}, dc_source : BOOLEAN, json : BOOLEAN]

SpLocal == [result |-> None]

\* ------------------------------------------------------- schemdraw_render

\* except Exception as e: of schemdraw_render.main (with traceback.print_exc())
SdExcept(where, e) ==
    /\ Raise(where, e, "top")
    /\ result_data' = [result_data EXCEPT !.errors = Append(@, e)]
    /\ stderr' = stderr \o << <<"Error: ", e>>, <<"Traceback: ", e>> >>
    /\ Exit(1)

\* if not args.script.exists(): ...; args.output.mkdir(...); result_data = {...}
SdCheckScript ==
    /\ runner = "schemdraw_render" /\ pc = "check_input"
    /\ Ran("check_input")
    /\ IF ~env.input_exists
       THEN /\ stderr' = Append(stderr, <<"Error: Script not found: ", "script">>)
            /\ Exit(1)
            /\ NoRaise
            /\ UNCHANGED <<result_data, fs>>
       ELSE \E mkdir_ok \in BOOLEAN :
              IF mkdir_ok
              THEN /\ fs' = [fs EXCEPT !.out_dir = TRUE]
                   /\ result_data' = [circuit_info |-> None,
                                      exported_files |-> <<>>,
                                      errors |-> <<>>]
                   /\ pc' = "import"
                   /\ NoRaise
                   /\ UNCHANGED <<stderr, exit_status>>
              ELSE /\ Uncaught("mkdir", "cannot create output directory")
                   /\ UNCHANGED <<result_data, fs>>
    /\ UNCHANGED <<runner, args, env, local, json_out>>

\* try: import schemdraw ... except ImportError: exit;  try: from skidl import
\* ...; set_default_tool(KICAD) except ImportError: exit
SdImport ==
    /\ runner = "schemdraw_render" /\ pc = "import"
    /\ Ran("import")
    /\ \E outcome \in {"ok", "no_schemdraw", "no_skidl", "tool_error"} :
        CASE outcome = "ok" ->
               /\ pc' = "load"
               /\ NoRaise
               /\ UNCHANGED <<result_data, stderr, exit_status>>
          [] outcome = "no_schemdraw" ->
               /\ Raise("import schemdraw", "ImportError", "import")
               /\ stderr' = Append(stderr, <<"Error: schemdraw is not installed">>)
               /\ Exit(1)
               /\ UNCHANGED result_data
          [] outcome = "no_skidl" ->
               /\ Raise("import skidl", "ImportError", "import")
               /\ stderr' = Append(stderr, <<"Error: SKiDL is not installed">>)
               /\ Exit(1)
               /\ UNCHANGED result_data
          [] outcome = "tool_error" ->
               SdExcept("set_default_tool", "tool error")
    /\ UNCHANGED <<runner, args, env, local, json_out, fs>>

\* circuit = load_skidl_circuit(args.script)
SdLoad ==
    /\ runner = "schemdraw_render" /\ pc = "load"
    /\ Ran("load")
    /\ \E outcome \in {"no_loader", "exec_raises", "executed"} :
        CASE outcome = "no_loader" ->
               /\ SdExcept("load_skidl_circuit", "Cannot load script")
               /\ UNCHANGED <<local, fs>>
          [] outcome = "exec_raises" ->
               /\ SdExcept("exec_module", "script error")
               /\ fs' = [fs EXCEPT !.script_run = TRUE]
               /\ UNCHANGED local
          [] outcome = "executed" ->
               /\ fs' = [fs EXCEPT !.script_run = TRUE]
               /\ local' = [local EXCEPT !.result = "default_circuit"]
               /\ pc' = "analyze"
               /\ NoRaise
               /\ UNCHANGED <<result_data, stderr, exit_status>>
    /\ UNCHANGED <<runner, args, env, json_out>>

\* circuit_info = analyze_circuit(circuit); result_data["circuit_info"] = {...}
SdAnalyze ==
    /\ runner = "schemdraw_render" /\ pc = "analyze"
    /\ Ran("analyze")
    /\ \E ok \in BOOLEAN :
        IF ok
        THEN /\ result_data' = [result_data EXCEPT !.circuit_info = "counts"]
             /\ pc' = "schematic"
             /\ NoRaise
             /\ UNCHANGED <<stderr, exit_status>>
        ELSE SdExcept("analyze_circuit", "circuit error")
    /\ UNCHANGED <<runner, args, env, local, json_out, fs>>

\* try: create_schematic(...) except Exception: create_simple_schematic(...);
\* result_data["exported_files"].append(schematic_path)
SdSchematic ==
    /\ runner = "schemdraw_render" /\ pc = "schematic"
    /\ Ran("schematic")
    /\ LET output_file == <<"base", "-schematic.", args.format>>
       IN  \E outcome \in {"ok", "fallback_ok", "fallback_raises"} :
             IF outcome = "fallback_raises"
             THEN /\ raised' = raised \o
                        <<[where |-> "create_schematic", exc |-> "draw error",
                           handled |-> "local"],
                          [where |-> "create_simple_schematic", exc |-> "draw error",
                           handled |-> "top"]>>
                  /\ result_data' = [result_data EXCEPT
                                        !.errors = Append(@, "draw error")]
                  /\ stderr' = stderr \o << <<"Error: ", "draw error">>,
                                            <<"Traceback: ", "draw error">> >>
                  /\ Exit(1)
                  /\ UNCHANGED fs
             ELSE /\ fs' = [fs EXCEPT !.files = @ \cup {output_file}]
                  /\ result_data' = [result_data EXCEPT
                                        !.exported_files = Append(@, output_file)]
                  /\ IF outcome = "fallback_ok"
                     THEN Raise("create_schematic", "draw error", "local") ELSE NoRaise
                  /\ pc' = "finish"
                  /\ UNCHANGED <<stderr, exit_status>>
    /\ UNCHANGED <<runner, args, env, local, json_out>>

\* print("\nDone!"); if args.json: print(json.dumps(result_data)); return
SdFinish ==
    /\ runner = "schemdraw_render" /\ pc = "finish"
    /\ Ran("finish")
    /\ json_out' = args.json
    /\ Exit(0)
    /\ UNCHANGED <<runner, args, env, local, result_data, stderr, fs, raised>>

SdArgs == [format : {"svg", "png"}, json : BOOLEAN]

SdLocal == [result |-> None]

\* ------------------------------------------------------ preview_generator

\* except Exception as e: of preview_generator.main (with traceback.print_exc())
PvExcept(where, e) ==
    /\ Raise(where, e, "top")
    /\ result_data' = [result_data EXCEPT !.errors = Append(@, e)]
    /\ stderr' = stderr \o << <<"Error: ", e>>, <<"Traceback: ", e>> >>
    /\ Exit(1)

\* Faulty variant of PvCheckInput: the output directory is created before the input
\* path is looked at.
PvCheckInputMkdirFirst ==
    /\ runner = "preview_generator" /\ pc = "check_input"
    /\ Ran("check_input")
    /\ fs' = [fs EXCEPT !.out_dir = TRUE]
    /\ IF ~env.input_exists
       THEN /\ stderr' = Append(stderr, <<"Error: Input file not found: ", "input">>)
            /\ Exit(1)
            /\ UNCHANGED result_data
       ELSE /\ result_data' = [exported_files |-> <<>>, errors |-> <<>>]
            /\ pc' = "import"
            /\ UNCHANGED <<stderr, exit_status>>
    /\ UNCHANGED <<runner, args, env, local, json_out, raised>>

\* if not args.input.exists(): ...; args.output.mkdir(...); result_data = {...}
PvCheckInput ==
    /\ runner = "preview_generator" /\ pc = "check_input"
    /\ Ran("check_input")
    /\ IF ~env.input_exists
       THEN /\ stderr' = Append(stderr, <<"Error: Input file not found: ", "input">>)
            /\ Exit(1)
            /\ NoRaise
            /\ UNCHANGED <<result_data, fs>>
       ELSE \E mkdir_ok \in BOOLEAN :
              IF mkdir_ok
              THEN /\ fs' = [fs EXCEPT !.out_dir = TRUE]
                   /\ result_data' = [exported_files |-> <<>>, errors |-> <<>>]
                   /\ pc' = "import"
                   /\ NoRaise
                   /\ UNCHANGED <<stderr, exit_status>>
              ELSE /\ Uncaught("mkdir", "cannot create output directory")
                   /\ UNCHANGED <<result_data, fs>>
    /\ UNCHANGED <<runner, args, env, local, json_out>>

\* try: import cadquery as cq / except ImportError: ...; sys.exit(1)
PvImport ==
    /\ runner = "preview_generator" /\ pc = "import"
    /\ Ran("import")
    /\ \E ok \in BOOLEAN :
        IF ok
        THEN /\ pc' = "load"
             /\ NoRaise
             /\ UNCHANGED <<stderr, exit_status>>
        ELSE /\ Raise("import cadquery", "ImportError", "import")
             /\ stderr' = Append(stderr, <<"Error: CadQuery is not installed">>)
             /\ Exit(1)
    /\ UNCHANGED <<runner, args, env, local, result_data, json_out, fs>>

\* preview_generator.load_cadquery_script over an executed module: the first
\* listed name's value is returned as it is; ValueError if none is defined.
load_cadquery_script(module) ==
    LET i == FirstDefined(CqResultNames, module)
    IN  IF i = 0
        THEN [ok |-> FALSE, exc |-> "ValueError", value |-> None]
        ELSE [ok |-> TRUE, exc |-> None, value |-> module[CqResultNames[i]]]

\* suffix = args.input.suffix.lower(); load_step_file / load_stl_file /
\* load_cadquery_script / unsupported format
PvLoad ==
    /\ runner = "preview_generator" /\ pc = "load"
    /\ Ran("load")
    /\ IF args.suffix \in {".step", ".stp", ".stl"}
       THEN \E ok \in BOOLEAN :
              IF ok
              THEN /\ local' = [local EXCEPT !.result = "solid"]
                   /\ pc' = "render"
                   /\ NoRaise
                   /\ UNCHANGED <<result_data, stderr, exit_status, fs>>
              ELSE /\ PvExcept("importers", "import error")
                   /\ UNCHANGED <<local, fs>>
       ELSE IF args.suffix = ".py"
       THEN \E outcome \in {"no_loader", "exec_raises", "executed"},
               module \in CqModules :
              (CASE outcome = "no_loader" ->
                     /\ PvExcept("load_cadquery_script", "Cannot load script")
                     /\ UNCHANGED <<local, fs>>
                [] outcome = "exec_raises" ->
                     /\ PvExcept("exec_module", "script error")
                     /\ fs' = [fs EXCEPT !.script_run = TRUE]
                     /\ UNCHANGED local
                [] outcome = "executed" ->
                     /\ fs' = [fs EXCEPT !.script_run = TRUE]
                     /\ LET r == load_cadquery_script(module)
                        IN  IF r.ok
                            THEN /\ local' = [local EXCEPT !.result = r.value]
                                 /\ pc' = "render"
                                 /\ NoRaise
                                 /\ UNCHANGED <<result_data, stderr, exit_status>>
                            ELSE /\ PvExcept("load_cadquery_script",
                                             "result variable not found")
                                 /\ UNCHANGED local)
       ELSE /\ stderr' = Append(stderr, <<"Error: Unsupported file format: ",
                                          args.suffix>>)
            /\ Exit(1)
            /\ NoRaise
            /\ UNCHANGED <<local, result_data, fs>>
    /\ UNCHANGED <<runner, args, env, json_out>>

\* get_view_parameters(view): (elevation, azimuth), (30, 45) for a name that
\* is not in the table.
get_view_parameters(view) ==
    CASE view = "iso" -> <<30, 45>>
      [] view = "front" -> <<0, 0>>
      [] view = "back" -> <<0, 180>>
      [] view = "top" -> <<90, 0>>
      [] view = "bottom" -> <<-90, 0>>
      [] view = "left" -> <<0, -90>>
      [] view = "right" -> <<0, 90>>
      [] OTHER -> <<30, 45>>

\* Faulty variant of Views: --all-views counts only with the default --view.
ViewsUnlessSelected(all_views, view) ==
    IF all_views /\ view = "iso" THEN <<"iso", "front", "top", "right">> ELSE <<view>>

\* if args.all_views: views = ['iso', 'front', 'top', 'right'] else: [args.view]
Views(all_views, view) ==
    IF all_views THEN <<"iso", "front", "top", "right">> ELSE <<view>>

\* output_file of the loop body for one view
PreviewFile(views, view) ==
    IF Len(views) > 1 THEN <<"base", "-", view, ".png">>
    ELSE <<"base", "-preview.png">>

\* for view in views: preview_path = render_preview(...); exported_files.append
\* The first `done` views render; the next one, if any is left, raises.
PvRender ==
    /\ runner = "preview_generator" /\ pc = "render"
    /\ Ran("render")
    /\ LET views == Views(args.all_views, args.view)
       IN  \E done \in 0..Len(views) :
             LET files == [i \in 1..done |-> PreviewFile(views, views[i])]
             IN  /\ fs' = [fs EXCEPT !.files = @ \cup Range(files)]
                 /\ local' = [local EXCEPT !.rendered =
                        [i \in 1..done |->
                            [view |-> views[i],
                             camera |-> get_view_parameters(views[i]),
                             file |-> files[i]]]]
                 /\ IF done = Len(views)
                    THEN /\ result_data' = [result_data EXCEPT
                                               !.exported_files = @ \o files]
                         /\ pc' = "finish"
                         /\ NoRaise
                         /\ UNCHANGED <<stderr, exit_status>>
                    ELSE /\ Raise("render_preview", "render error", "top")
                         /\ result_data' = [result_data EXCEPT
                                               !.exported_files = @ \o files,
                                               !.errors = Append(@, "render error")]
                         /\ stderr' = stderr \o << <<"Error: ", "render error">>,
                                                   <<"Traceback: ", "render error">> >>
                         /\ Exit(1)
    /\ UNCHANGED <<runner, args, env, json_out>>

\* print("\nDone!"); if args.json: print(json.dumps(result_data)); return
PvFinish ==
    /\ runner = "preview_generator" /\ pc = "finish"
    /\ Ran("finish")
    /\ json_out' = args.json
    /\ Exit(0)
    /\ UNCHANGED <<runner, args, env, local, result_data, stderr, fs, raised>>

PvArgs ==
    [suffix : {".step", ".stl", ".py", ".txt"}, view : {"iso", "top", "back"},
     all_views : BOOLEAN, json : BOOLEAN]

PvLocal == [result |-> None, rendered |-> <<>>]

\* ---------------------------------------------------- integration_checker
\* Lengths are in tenths of a millimetre.  A spec file is modelled by what each
\* re.search of parse_spec_file finds in it: the tuple of the numbers in the
\* match's groups, or <<>> when the pattern does not occur.

\* PCBSpec.thickness: float = 1.6
DefaultThickness == 16

\* --clearance default=2.0
DefaultClearance == 20

\* --tolerance default=0.5
DefaultTolerance == 5

\* PCBSpec() and EnclosureSpec() as the dataclasses construct them.
PCBSpec ==
    [width |-> 0, depth |-> 0, thickness |-> DefaultThickness,
     mounting_holes |-> <<>>, max_component_height |-> 0, connectors |-> <<>>]

EnclosureSpec ==
    [internal_width |-> 0, internal_depth |-> 0, internal_height |-> 0,
     boss_positions |-> <<>>, boss_height |-> 0]

\* Faulty variant of parse_spec_file: a thickness the file does not give is zero.
parse_spec_file_no_default(content) ==
    [pcb |-> [width |-> IF content.pcb_size # <<>> THEN content.pcb_size[1] ELSE 0,
              depth |-> IF content.pcb_size # <<>> THEN content.pcb_size[2] ELSE 0,
              thickness |-> IF content.pcb_thickness # <<>>
                            THEN content.pcb_thickness[1] ELSE 0,
              mounting_holes |-> content.holes,
              max_component_height |-> IF content.component_height # <<>>
                                       THEN content.component_height[1] ELSE 0,
              connectors |-> content.connectors],
     enclosure |-> [internal_width |-> IF content.enc_size # <<>>
                                       THEN content.enc_size[1] ELSE 0,
                    internal_depth |-> IF content.enc_size # <<>>
                                       THEN content.enc_size[2] ELSE 0,
                    internal_height |-> IF content.enc_size # <<>>
                                        THEN content.enc_size[3] ELSE 0,
                    boss_positions |-> <<>>,
                    boss_height |-> IF content.boss_height # <<>>
                                    THEN content.boss_height[1] ELSE 0]]

\* Faulty variant of parse_spec_file: the enclosure gets a boss under every
\* mounting hole the file lists.
parse_spec_file_with_bosses(content) ==
    LET p1 == IF content.pcb_size # <<>>
              THEN [PCBSpec EXCEPT !.width = content.pcb_size[1],
                                   !.depth = content.pcb_size[2]]
              ELSE PCBSpec
        p2 == IF content.pcb_thickness # <<>>
              THEN [p1 EXCEPT !.thickness = content.pcb_thickness[1]] ELSE p1
        e1 == IF content.enc_size # <<>>
              THEN [EnclosureSpec EXCEPT !.internal_width = content.enc_size[1],
                                         !.internal_depth = content.enc_size[2],
                                         !.internal_height = content.enc_size[3]]
              ELSE EnclosureSpec
        e2 == IF content.boss_height # <<>>
              THEN [e1 EXCEPT !.boss_height = content.boss_height[1]] ELSE e1
        p3 == IF content.component_height # <<>>
              THEN [p2 EXCEPT !.max_component_height = content.component_height[1]]
              ELSE p2
        p4 == [p3 EXCEPT !.mounting_holes = @ \o content.holes]
        p5 == [p4 EXCEPT !.connectors = @ \o content.connectors]
        e3 == [e2 EXCEPT !.boss_positions = @ \o content.holes]
    IN  [pcb |-> p5, enclosure |-> e3]

\* parse_spec_file(spec_path) over the file's content: every field a pattern
\* matches is set from the match, every other field keeps its default.
parse_spec_file(content) ==
    LET p1 == IF content.pcb_size # <<>>
              THEN [PCBSpec EXCEPT !.width = content.pcb_size[1],
                                   !.depth = content.pcb_size[2]]
              ELSE PCBSpec
        p2 == IF content.pcb_thickness # <<>>
              THEN [p1 EXCEPT !.thickness = content.pcb_thickness[1]] ELSE p1
        e1 == IF content.enc_size # <<>>
              THEN [EnclosureSpec EXCEPT !.internal_width = content.enc_size[1],
                                         !.internal_depth = content.enc_size[2],
                                         !.internal_height = content.enc_size[3]]
              ELSE EnclosureSpec
        e2 == IF content.boss_height # <<>>
              THEN [e1 EXCEPT !.boss_height = content.boss_height[1]] ELSE e1
        p3 == IF content.component_height # <<>>
              THEN [p2 EXCEPT !.max_component_height = content.component_height[1]]
              ELSE p2
        p4 == [p3 EXCEPT !.mounting_holes = @ \o content.holes]
        p5 == [p4 EXCEPT !.connectors = @ \o content.connectors]
    IN  [pcb |-> p5, enclosure |-> e2]

(***************************************************************************)
(* The checks compute in floating point on the decimals of the spec file.  *)
(* The result of an addition or subtraction is the exact value or the      *)
(* float next to it: fp gives the direction of that rounding error, -1, 0  *)
(* or 1.  Operands that are multiples of 0.5 mm are exactly representable  *)
(* and give no error, and x - x is exactly 0.                              *)
(***************************************************************************)

\* The rounding errors a result computed from the operands (in tenths) can have.
Roundings(operands) ==
    IF \A i \in 1..Len(operands) : operands[i] % 5 = 0 THEN {0} ELSE {-1, 0, 1}

\* computed < limit, for a computed value of exact value x and rounding error
\* e, and a limit that is an input.
Below(x, e, limit) == x < limit \/ (x = limit /\ e < 0)

\* The rounding errors of check_pcb_clearance's two subtractions.
PcbRoundings(pcb, enclosure) ==
    [width : IF enclosure.internal_width = pcb.width THEN {0}
             ELSE Roundings(<<enclosure.internal_width, pcb.width>>),
     depth : IF enclosure.internal_depth = pcb.depth THEN {0}
             ELSE Roundings(<<enclosure.internal_depth, pcb.depth>>)]

\* Faulty variant of check_pcb_clearance: a clearance equal to min_clearance
\* is reported as a warning.
check_pcb_clearance_inclusive(pcb, enclosure, min_clearance, fp) ==
    LET width_clearance2 == enclosure.internal_width - pcb.width
        depth_clearance2 == enclosure.internal_depth - pcb.depth
        details == [width_clearance2 |-> width_clearance2,
                    depth_clearance2 |-> depth_clearance2]
    IN  IF Below(width_clearance2, fp.width, 0) \/ Below(depth_clearance2, fp.depth, 0)
        THEN [name |-> "pcb_clearance", status |-> "ERROR",
              message |-> "pcb does not fit", details |-> details]
        ELSE IF ~Below(2 * min_clearance, -fp.width, width_clearance2)
                \/ ~Below(2 * min_clearance, -fp.depth, depth_clearance2)
        THEN [name |-> "pcb_clearance", status |-> "WARNING",
              message |-> "clearance below recommended", details |-> details]
        ELSE [name |-> "pcb_clearance", status |-> "OK",
              message |-> "clearance", details |-> details]

\* check_pcb_clearance(pcb, enclosure, min_clearance).  The clearances are
\* kept doubled, (internal - pcb) instead of (internal - pcb) / 2, and are
\* compared with the doubled min_clearance (halving a float is exact).
check_pcb_clearance(pcb, enclosure, min_clearance, fp) ==
    LET width_clearance2 == enclosure.internal_width - pcb.width
        depth_clearance2 == enclosure.internal_depth - pcb.depth
        details == [width_clearance2 |-> width_clearance2,
                    depth_clearance2 |-> depth_clearance2]
    IN  IF Below(width_clearance2, fp.width, 0) \/ Below(depth_clearance2, fp.depth, 0)
        THEN [name |-> "pcb_clearance", status |-> "ERROR",
              message |-> "pcb does not fit", details |-> details]
        ELSE IF Below(width_clearance2, fp.width, 2 * min_clearance)
                \/ Below(depth_clearance2, fp.depth, 2 * min_clearance)
        THEN [name |-> "pcb_clearance", status |-> "WARNING",
              message |-> "clearance below recommended", details |-> details]
        ELSE [name |-> "pcb_clearance", status |-> "OK",
              message |-> "clearance", details |-> details]

\* The rounding errors of check_height_clearance's clearance (a sum and a
\* subtraction) and of its required_height (a sum).
HeightRoundings(pcb, enclosure, min_clearance) ==
    [clearance : Roundings(<<enclosure.internal_height, enclosure.boss_height,
                             pcb.thickness, pcb.max_component_height>>),
     required : Roundings(<<enclosure.boss_height, pcb.thickness,
                            pcb.max_component_height, min_clearance>>)]

\* check_height_clearance(pcb, enclosure, min_clearance)
check_height_clearance(pcb, enclosure, min_clearance, fp) ==
    LET required_height == enclosure.boss_height + pcb.thickness
                           + pcb.max_component_height + min_clearance
        available_height == enclosure.internal_height
        clearance == available_height
                     - (enclosure.boss_height + pcb.thickness
                        + pcb.max_component_height)
        details == [clearance |-> clearance, required_height |-> required_height,
                    available_height |-> available_height]
    IN  IF Below(clearance, fp.clearance, 0)
        THEN [name |-> "height_clearance", status |-> "ERROR",
              message |-> "components interfere", details |-> details]
        ELSE IF Below(clearance, fp.clearance, min_clearance)
        THEN [name |-> "height_clearance", status |-> "WARNING",
              message |-> "height clearance below recommended", details |-> details]
        ELSE [name |-> "height_clearance", status |-> "OK",
              message |-> "height clearance", details |-> details]

\* distance <= tolerance, with distance the Euclidean distance of hole and boss
WithinTolerance(hole, boss, tolerance) ==
    (hole[1] - boss[1]) * (hole[1] - boss[1])
    + (hole[2] - boss[2]) * (hole[2] - boss[2]) <= tolerance * tolerance

\* Faulty variant of Matched: only the first boss is compared.
MatchedFirstBoss(hole, boss_positions, tolerance) ==
    WithinTolerance(hole, boss_positions[1], tolerance)

\* The inner loop of check_mounting_holes: some boss is within tolerance.
Matched(hole, boss_positions, tolerance) ==
    \E k \in 1..Len(boss_positions) :
        WithinTolerance(hole, boss_positions[k], tolerance)

\* check_mounting_holes(pcb, enclosure, tolerance)
check_mounting_holes(pcb, enclosure, tolerance) ==
    IF pcb.mounting_holes = <<>>
    THEN [name |-> "mounting_holes", status |-> "WARNING",
          message |-> "no pcb mounting holes given", details |-> <<>>]
    ELSE IF enclosure.boss_positions = <<>>
    THEN [name |-> "mounting_holes", status |-> "WARNING",
          message |-> "no boss positions given", details |-> <<>>]
    ELSE LET mismatched == SelectSeq(pcb.mounting_holes,
                 LAMBDA h : ~Matched(h, enclosure.boss_positions, tolerance))
         IN  IF mismatched # <<>>
             THEN [name |-> "mounting_holes", status |-> "ERROR",
                   message |-> "holes do not match", details |-> mismatched]
             ELSE [name |-> "mounting_holes", status |-> "OK",
                   message |-> "all holes match", details |-> pcb.mounting_holes]

\* sum(1 for r in results if r.status == status)
CountStatus(results, status) ==
    Cardinality({i \in 1..Len(results) : results[i].status = status})

\* Faulty variant of OverallStatus: a warning hides an error.
OverallStatusWarningFirst(results) ==
    IF \E i \in 1..Len(results) : results[i].status = "WARNING" THEN "WARNING"
    ELSE IF \E i \in 1..Len(results) : results[i].status = "ERROR" THEN "ERROR"
    ELSE "OK"

\* The overall status main computes over the check results.
OverallStatus(results) ==
    IF \E i \in 1..Len(results) : results[i].status = "ERROR" THEN "ERROR"
    ELSE IF \E i \in 1..Len(results) : results[i].status = "WARNING" THEN "WARNING"
    ELSE "OK"

\* Faulty variant of generate_report: the verdict looks at the warnings first.
generate_report_warning_first(results) ==
    LET ok_count == CountStatus(results, "OK")
        warning_count == CountStatus(results, "WARNING")
        error_count == CountStatus(results, "ERROR")
        overall == IF warning_count > 0 THEN "conditional pass"
                   ELSE IF error_count > 0 THEN "fail"
                   ELSE "pass"
    IN  [overall |-> overall, ok_count |-> ok_count,
         warning_count |-> warning_count, error_count |-> error_count]

\* generate_report: the result summary written to the report.  The verdicts
\* are "fail", "conditional pass" and "pass".
generate_report(results) ==
    LET ok_count == CountStatus(results, "OK")
        warning_count == CountStatus(results, "WARNING")
        error_count == CountStatus(results, "ERROR")
        overall == IF error_count > 0 THEN "fail"
                   ELSE IF warning_count > 0 THEN "conditional pass"
                   ELSE "pass"
    IN  [overall |-> overall, ok_count |-> ok_count,
         warning_count |-> warning_count, error_count |-> error_count]

\* except Exception as e: of integration_checker.main (with traceback.print_exc())
IcExcept(where, e) ==
    /\ Raise(where, e, "top")
    /\ result_data' = [result_data EXCEPT !.errors = Append(@, e)]
    /\ stderr' = stderr \o << <<"Error: ", e>>, <<"Traceback: ", e>> >>
    /\ Exit(1)

\* if not args.spec.exists(): ...; args.output.mkdir(...); result_data = {...}
IcCheckSpec ==
    /\ runner = "integration_checker" /\ pc = "check_input"
    /\ Ran("check_input")
    /\ IF ~env.input_exists
       THEN /\ stderr' = Append(stderr, <<"Error: Spec file not found: ", "spec">>)
            /\ Exit(1)
            /\ NoRaise
            /\ UNCHANGED <<result_data, fs>>
       ELSE \E mkdir_ok \in BOOLEAN :
              IF mkdir_ok
              THEN /\ fs' = [fs EXCEPT !.out_dir = TRUE]
                   /\ result_data' = [checks |-> <<>>,
                                      overall_status |-> "OK",
                                      exported_files |-> <<>>,
                                      errors |-> <<>>]
                   /\ pc' = "parse"
                   /\ NoRaise
                   /\ UNCHANGED <<stderr, exit_status>>
              ELSE /\ Uncaught("mkdir", "cannot create output directory")
                   /\ UNCHANGED <<result_data, fs>>
    /\ UNCHANGED <<runner, args, env, local, json_out>>

\* pcb, enclosure = parse_spec_file(args.spec)
IcParse ==
    /\ runner = "integration_checker" /\ pc = "parse"
    /\ Ran("parse")
    /\ \E read_ok \in BOOLEAN :
        IF read_ok
        THEN /\ local' = [local EXCEPT !.parsed = parse_spec_file(env.content)]
             /\ pc' = "checks"
             /\ NoRaise
             /\ UNCHANGED <<result_data, stderr, exit_status>>
        ELSE /\ IcExcept("read_text", "cannot read spec")
             /\ UNCHANGED local
    /\ UNCHANGED <<runner, args, env, json_out, fs>>

\* results = [check_pcb_clearance(...), check_height_clearance(...),
\* check_mounting_holes(...)]; result_data["checks"]; the overall status
IcChecks ==
    /\ runner = "integration_checker" /\ pc = "checks"
    /\ Ran("checks")
    /\ LET pcb == local.parsed.pcb
           enclosure == local.parsed.enclosure
       IN  \E fp1 \in PcbRoundings(pcb, enclosure),
              fp2 \in HeightRoundings(pcb, enclosure, args.clearance) :
             LET results ==
                   << check_pcb_clearance(pcb, enclosure, args.clearance, fp1),
                      check_height_clearance(pcb, enclosure, args.clearance, fp2),
                      check_mounting_holes(pcb, enclosure, args.tolerance) >>
             IN  /\ local' = [local EXCEPT !.results = results]
                 /\ result_data' = [result_data EXCEPT
                                       !.checks = results,
                                       !.overall_status = OverallStatus(results)]
    /\ pc' = "report"
    /\ NoRaise
    /\ UNCHANGED <<runner, args, env, stderr, json_out, fs, exit_status>>

\* generate_report(...); result_data["exported_files"].append(str(report_path))
IcReport ==
    /\ runner = "integration_checker" /\ pc = "report"
    /\ Ran("report")
    /\ \E write_ok \in BOOLEAN :
        IF write_ok
        THEN /\ local' = [local EXCEPT !.report = generate_report(local.results)]
             /\ fs' = [fs EXCEPT !.files = @ \cup {<<"base", "-integration-report.md">>}]
             /\ result_data' = [result_data EXCEPT !.exported_files =
                                   Append(@, <<"base", "-integration-report.md">>)]
             /\ pc' = "finish"
             /\ NoRaise
             /\ UNCHANGED <<stderr, exit_status>>
        ELSE /\ IcExcept("write_text", "cannot write report")
             /\ UNCHANGED <<local, fs>>
    /\ UNCHANGED <<runner, args, env, json_out>>

\* Faulty variant of IcFinish: an overall status of ERROR becomes the exit status.
IcFinishByStatus ==
    /\ runner = "integration_checker" /\ pc = "finish"
    /\ Ran("finish")
    /\ json_out' = args.json
    /\ Exit(IF result_data.overall_status = "ERROR" THEN 1 ELSE 0)
    /\ UNCHANGED <<runner, args, env, local, result_data, stderr, fs, raised>>

\* print(f"\nOverall: ..."); if args.json: print(json.dumps(result_data)); return
IcFinish ==
    /\ runner = "integration_checker" /\ pc = "finish"
    /\ Ran("finish")
    /\ json_out' = args.json
    /\ Exit(0)
    /\ UNCHANGED <<runner, args, env, local, result_data, stderr, fs, raised>>

IcArgs ==
    [clearance : {DefaultClearance}, tolerance : {DefaultTolerance}, json : BOOLEAN]

\* main's locals before they are assigned: the specs as constructed, no check
\* results, no report.
IcLocal ==
    [parsed |-> [pcb |-> PCBSpec, enclosure |-> EnclosureSpec],
     results |-> <<>>,
     report |-> [overall |-> None, ok_count |-> 0, warning_count |-> 0,
                 error_count |-> 0]]

\* The spec files of the runs: each pattern present or absent.
SpecContents ==
    [pcb_size : {<<>>, <<500, 300>>},
     pcb_thickness : {<<>>, <<10>>},
     enc_size : {<<>>, <<540, 340, 200>>, <<520, 310, 100>>, <<480, 340, 200>>},
     boss_height : {<<>>, <<50>>},
     component_height : {<<>>, <<80>>},
     holes : {<<>>, << <<30, 30>>, <<470, 270>> >>},
     connectors : {<<>>, <<"USB-C">>}]

\* A run whose input is a script: only its presence matters to main.
ScriptEnvs == [input_exists : BOOLEAN]

IcEnvs == [input_exists : BOOLEAN, content : SpecContents]

\* ------------------------------------------------------------ the runs

InitRun(r, a, e, l) ==
    /\ runner = r
    /\ args \in a
    /\ env \in e
    /\ pc = "check_input"
    /\ local = l
    /\ result_data = [errors |-> <<>>]
    /\ stderr = <<>>
    /\ json_out = FALSE
    /\ fs = [out_dir |-> FALSE, script_run |-> FALSE, files |-> {}]
    /\ exit_status = 0
    /\ raised = <<>>
    /\ stages = <<>>

Init ==
    \/ InitRun("cadquery_runner", CqArgs, ScriptEnvs, CqLocal)
    \/ InitRun("skidl_runner", SkArgs, ScriptEnvs, SkLocal)
    \/ InitRun("pyspice_sim", SpArgs, ScriptEnvs, SpLocal)
    \/ InitRun("schemdraw_render", SdArgs, ScriptEnvs, SdLocal)
    \/ InitRun("preview_generator", PvArgs, ScriptEnvs, PvLocal)
    \/ InitRun("integration_checker", IcArgs, IcEnvs, IcLocal)

Next ==
    \/ CqCheckScript
    \/ CqImport
    \/ CqLoad
    \/ CqValidate
    \/ CqExport
    \/ CqPreview
    \/ CqFinish
    \/ SkCheckScript
    \/ SkImport
    \/ SkLoad
    \/ SkCircuitInfo
    \/ SkErc
    \/ SkNetlist
    \/ SkBom
    \/ SkFinish
    \/ SpCheckScript
    \/ SpImport
    \/ SpLoad
    \/ SpAnalysis
    \/ SpFinish
    \/ SdCheckScript
    \/ SdImport
    \/ SdLoad
    \/ SdAnalyze
    \/ SdSchematic
    \/ SdFinish
    \/ PvCheckInput
    \/ PvImport
    \/ PvLoad
    \/ PvRender
    \/ PvFinish
    \/ IcCheckSpec
    \/ IcParse
    \/ IcChecks
    \/ IcReport
    \/ IcFinish

Spec == Init /\ [][Next]_vars

\* A sequential process keeps running: every stage of main that can run does.
FairSpec == Spec /\ WF_vars(Next)

\* -------------------------------------------------- the loaders alone

\* What a script may bind a name to: None or a model object.
ScriptValues == {None, "v1", "v2"}

\* The modules a script may execute to: any of the listed names, and a name
\* the loaders do not look for, each bound to any value.
ModulesOver(names) ==
    UNION {[S -> ScriptValues] : S \in SUBSET (Range(names) \cup {"other"})}

\* A call of a loader on a script that executes to env.module.
InitLoad ==
    /\ \/ /\ runner = "load_script"
          /\ env \in [module : ModulesOver(CqResultNames)]
       \/ /\ runner = "load_circuit"
          /\ env \in [module : ModulesOver(SpiceResultNames)]
    /\ args = [script |-> "script"]
    /\ pc = "call"
    /\ local = [ok |-> FALSE, exc |-> None, value |-> None]
    /\ result_data = [errors |-> <<>>]
    /\ stderr = <<>>
    /\ json_out = FALSE
    /\ fs = [out_dir |-> FALSE, script_run |-> FALSE, files |-> {}]
    /\ exit_status = 0
    /\ raised = <<>>
    /\ stages = <<>>

\* The call returns the value or raises: local holds the outcome.
Loaded(where, r) ==
    /\ Ran(where)
    /\ local' = r
    /\ fs' = [fs EXCEPT !.script_run = TRUE]
    /\ IF r.ok
       THEN pc' = "returned" /\ NoRaise
       ELSE pc' = "raised" /\ Raise(where, r.exc, "uncaught")
    /\ UNCHANGED <<runner, args, env, result_data, stderr, json_out, exit_status>>

\* cadquery_runner.load_script(script_path)
LoadScript ==
    /\ runner = "load_script" /\ pc = "call"
    /\ Loaded("load_script", load_script(env.module))

\* pyspice_sim.load_circuit(script_path)
LoadCircuit ==
    /\ runner = "load_circuit" /\ pc = "call"
    /\ Loaded("load_circuit", load_circuit(env.module))

NextLoad ==
    \/ LoadScript
    \/ LoadCircuit

SpecLoad == InitLoad /\ [][NextLoad]_vars

\* ------------------------------------------------ the circuit templates

(***************************************************************************)
(* The templates compute in floating point.  The model computes in exact   *)
(* rationals and draws the two things rounding error decides: which of two *)
(* equally near E24 values min() returns, and whether a computed           *)
(* resistance whose exact value is a power of ten lands just below it.     *)
(* A resistance value is [num, den, below]: num/den ohm, `below` set when  *)
(* the float lies just below num/den.  Voltages are in tenths of a volt,   *)
(* currents in mA, rounded resistances in tenths of an ohm.                *)
(***************************************************************************)

\* e24 = [1.0, 1.1, ..., 9.1], in tenths.
E24 == <<10, 11, 12, 13, 15, 16, 18, 20, 22, 24, 27, 30,
         33, 36, 39, 43, 47, 51, 56, 62, 68, 75, 82, 91>>

RECURSIVE Pow10(_)
\* 10 ** k
Pow10(k) == IF k = 0 THEN 1 ELSE 10 * Pow10(k - 1)

RECURSIVE Digits(_)
\* len(str(n)) for an integer n >= 0
Digits(n) == IF n < 10 THEN 1 ELSE 1 + Digits(n \div 10)

\* abs(x)
Abs(x) == IF x < 0 THEN -x ELSE x

RECURSIVE Gcd(_, _)
Gcd(a, b) == IF b = 0 THEN a ELSE Gcd(b, a % b)

\* The exactly represented value n/d, in lowest terms.
Rat(n, d) == [num |-> n \div Gcd(n, d), den |-> d \div Gcd(n, d), below |-> FALSE]

\* int(value): truncation; a float just below an integer truncates to the
\* integer before it.
IntPart(value) ==
    IF value.below /\ value.num % value.den = 0 /\ value.num > 0
    THEN (value.num \div value.den) - 1
    ELSE value.num \div value.den

\* magnitude = 10 ** int(len(str(int(value))) - 1)
Magnitude(value) == Pow10(Digits(IntPart(value)) - 1)

\* abs(x - normalized) for the E24 entry x (in tenths), scaled by
\* 10 * value.den * magnitude.
Distance(x, value, magnitude) ==
    Abs(x * value.den * magnitude - 10 * value.num)

\* The entries of e24 at the least distance from normalized.
Nearest(value) ==
    LET magnitude == Magnitude(value)
        d == [i \in 1..Len(E24) |-> Distance(E24[i], value, magnitude)]
    IN  {i \in 1..Len(E24) : \A j \in 1..Len(E24) : d[i] <= d[j]}

\* round_to_e24 always returning the first entry of the series.
round_to_e24_first(value) == E24[1] * Magnitude(value)

\* round_to_e24(value) in exact arithmetic, in tenths of an ohm: min() returns
\* the first entry at the least distance.
round_to_e24(value) ==
    LET near == Nearest(value)
        closest == CHOOSE i \in near : \A j \in near : i <= j
    IN  E24[closest] * Magnitude(value)

\* The results round_to_e24 can return in floating point: when two entries
\* are equally near in exact arithmetic, rounding error picks one.
RoundedInFloat(value) ==
    LET near == Nearest(value)
    IN  IF Cardinality(near) > 1
        THEN {E24[i] * Magnitude(value) : i \in near}
        ELSE {round_to_e24(value)}

\* The floats a computed resistance can be: the exact value or, when that is
\* a whole power of ten, the float just below it.
Computed(value) ==
    {value} \cup
    {[value EXCEPT !.below = TRUE] : k \in {k \in 0..(MaxDecade + 2) :
                                              value.den = 1 /\ value.num = Pow10(k)}}

\* DIVIDER_CURRENT of the runs, in mA.
Currents == {1, 3, 20, 200}

\* The values handed to round_to_e24 directly: hundredths of an ohm over the
\* decades.
RoundInputs ==
    {[num |-> c * Pow10(k), den |-> 100, below |-> FALSE] :
        c \in 1..MaxCenti, k \in 0..MaxDecade}

\* The parameter block of voltage_divider.py: 0 < VOUT_VOLTAGE < VIN_VOLTAGE.
DividerParams ==
    {p \in [VIN_VOLTAGE : 2..MaxVin, VOUT_VOLTAGE : 1..MaxVin,
            DIVIDER_CURRENT : Currents] : p.VOUT_VOLTAGE < p.VIN_VOLTAGE}

NoValue == Rat(0, 1)

DividerLocal ==
    [R_TOTAL |-> NoValue, R1_VALUE |-> NoValue, R2_VALUE |-> NoValue,
     R1_ROUNDED |-> 0, R2_ROUNDED |-> 0, ACTUAL_VOUT |-> NoValue]

\* ---- round_to_e24 applied to its own result
(***************************************************************************)
(* A value of the runs below is value * 10^scale, so that resistances      *)
(* beyond the 32-bit integers can be handed over.  magnitude is a Python   *)
(* integer; closest * magnitude converts it to a float, and 10 ** k is     *)
(* exactly a float only up to k = ExactPowers.  Beyond that, 1.0 * 10 ** k *)
(* is the float next to 10^k, below it for the k of PowersBelow.  The      *)
(* other products are further from a power of ten than any rounding error. *)
(***************************************************************************)

\* The largest k for which 10 ** k is exactly a double.
ExactPowers == 22

\* The k up to 30 for which float(10 ** k) < 10 ** k.
PowersBelow == {23, 24, 28, 29}

\* The decimal scale of the large values.
LargeScale == 21

Scales == {0, LargeScale}

\* The values >= 1 handed to round_to_e24, the floats just below a power of
\* ten among them.
TwiceInputs ==
    {a \in [value : UNION {Computed(Rat(u.num, u.den)) : u \in RoundInputs},
            scale : Scales] :
        /\ a.value.num >= a.value.den
        /\ ~(a.value.below /\ a.value.num = a.value.den)}

\* int(len(str(int(value))) - 1) for value * 10^scale
Exponent(value, scale) == Digits(IntPart(value)) - 1 + scale

\* return closest * magnitude: the float returned, r the product in tenths.
Product(r, value, scale) ==
    [tenths |-> r, scale |-> scale,
     below |-> /\ r = E24[1] * Magnitude(value)
               /\ Exponent(value, scale) > ExactPowers
               /\ Exponent(value, scale) \in PowersBelow]

\* The returned float as the argument of the next call.
AsValue(product) == [Rat(product.tenths, 10) EXCEPT !.below = product.below]

NoProduct == [tenths |-> 0, scale |-> 0, below |-> FALSE]

InitTemplates ==
    /\ \/ /\ runner = "round_to_e24"
          /\ args \in [value : RoundInputs]
          /\ local = [result |-> 0]
          /\ pc = "call"
       \/ /\ runner = "round_twice"
          /\ args \in TwiceInputs
          /\ local = [first |-> NoProduct, second |-> NoProduct]
          /\ pc = "call"
       \/ /\ runner = "voltage_divider"
          /\ args \in DividerParams
          /\ local = DividerLocal
          /\ pc = "calc"
    /\ env = [input_exists |-> TRUE]
    /\ result_data = [errors |-> <<>>]
    /\ stderr = <<>>
    /\ json_out = FALSE
    /\ fs = [out_dir |-> FALSE, script_run |-> FALSE, files |-> {}]
    /\ exit_status = 0
    /\ raised = <<>>
    /\ stages = <<>>

\* round_to_e24(value)
RoundValue ==
    /\ runner = "round_to_e24" /\ pc = "call"
    /\ Ran("round_to_e24")
    /\ \E r \in RoundedInFloat(args.value) : local' = [local EXCEPT !.result = r]
    /\ pc' = "returned"
    /\ UNCHANGED <<runner, args, env, result_data, stderr, json_out, fs,
                   exit_status, raised>>

\* R_TOTAL = VIN_VOLTAGE / DIVIDER_CURRENT
\* R2_VALUE = R_TOTAL * (VOUT_VOLTAGE / VIN_VOLTAGE)
\* R1_VALUE = R_TOTAL - R2_VALUE
DividerCalc ==
    /\ runner = "voltage_divider" /\ pc = "calc"
    /\ Ran("calc")
    /\ LET total == Rat(100 * args.VIN_VOLTAGE, args.DIVIDER_CURRENT)
           r2 == Rat(total.num * args.VOUT_VOLTAGE, total.den * args.VIN_VOLTAGE)
           r1 == Rat(total.num * r2.den - r2.num * total.den, total.den * r2.den)
       IN  \E f1 \in Computed(r1), f2 \in Computed(r2) :
               local' = [local EXCEPT !.R_TOTAL = total,
                                      !.R1_VALUE = f1,
                                      !.R2_VALUE = f2]
    /\ pc' = "round"
    /\ UNCHANGED <<runner, args, env, result_data, stderr, json_out, fs,
                   exit_status, raised>>

\* R1_ROUNDED = round_to_e24(R1_VALUE); R2_ROUNDED = round_to_e24(R2_VALUE)
DividerRound ==
    /\ runner = "voltage_divider" /\ pc = "round"
    /\ Ran("round")
    /\ \E r1 \in RoundedInFloat(local.R1_VALUE),
          r2 \in RoundedInFloat(local.R2_VALUE) :
           local' = [local EXCEPT !.R1_ROUNDED = r1, !.R2_ROUNDED = r2]
    /\ pc' = "actual"
    /\ UNCHANGED <<runner, args, env, result_data, stderr, json_out, fs,
                   exit_status, raised>>

\* ACTUAL_VOUT = VIN_VOLTAGE * R2_ROUNDED / (R1_ROUNDED + R2_ROUNDED), in volts
DividerActual ==
    /\ runner = "voltage_divider" /\ pc = "actual"
    /\ Ran("actual")
    /\ local' = [local EXCEPT !.ACTUAL_VOUT =
                    Rat(args.VIN_VOLTAGE * local.R2_ROUNDED,
                        10 * (local.R1_ROUNDED + local.R2_ROUNDED))]
    /\ pc' = "done"
    /\ UNCHANGED <<runner, args, env, result_data, stderr, json_out, fs,
                   exit_status, raised>>

\* first = round_to_e24(value)
RoundFirst ==
    /\ runner = "round_twice" /\ pc = "call"
    /\ Ran("round_to_e24")
    /\ \E r \in RoundedInFloat(args.value) :
         local' = [local EXCEPT !.first = Product(r, args.value, args.scale)]
    /\ pc' = "once"
    /\ UNCHANGED <<runner, args, env, result_data, stderr, json_out, fs,
                   exit_status, raised>>

\* second = round_to_e24(first)
RoundSecond ==
    /\ runner = "round_twice" /\ pc = "once"
    /\ Ran("round_to_e24")
    /\ LET value == AsValue(local.first)
       IN  \E r \in RoundedInFloat(value) :
             local' = [local EXCEPT !.second = Product(r, value, args.scale)]
    /\ pc' = "twice"
    /\ UNCHANGED <<runner, args, env, result_data, stderr, json_out, fs,
                   exit_status, raised>>

NextTemplates ==
    \/ RoundValue
    \/ RoundFirst
    \/ RoundSecond
    \/ DividerCalc
    \/ DividerRound
    \/ DividerActual

SpecTemplates == InitTemplates /\ [][NextTemplates]_vars

\* --------------------------------------------- the checks on their own

\* --clearance values: the default, none, and a negative one.
MinClearances == {DefaultClearance, 0, -10}

\* How far an internal dimension is from what it is compared with, in tenths.
Offsets == {-10, 0, 10, 20, 30, 40, 60}

\* PCB and enclosure outlines: widths and depths around each other, with
\* exactly representable decimals (50.0) and others (50.3).
PcbClearanceInputs ==
    {[pcb |-> [PCBSpec EXCEPT !.width = w, !.depth = 300],
      enclosure |-> [EnclosureSpec EXCEPT !.internal_width = w + ow,
                                          !.internal_depth = 300 + od],
      min_clearance |-> m] :
        w \in {500, 503}, ow \in Offsets, od \in {-10, 0, 40, 60},
        m \in MinClearances}

\* Heights: the internal height around the stack of boss, board and components.
HeightClearanceInputs ==
    {[pcb |-> [PCBSpec EXCEPT !.thickness = t, !.max_component_height = c],
      enclosure |-> [EnclosureSpec EXCEPT !.boss_height = b,
                                          !.internal_height = b + t + c + o],
      min_clearance |-> m] :
        t \in {DefaultThickness, 10}, c \in {0, 2, 80, 108}, b \in {0, 20, 50},
        o \in Offsets, m \in MinClearances}

\* Hole and boss positions, all multiples of 0.5 mm (the distance computation
\* is exact on them).
HolePoints == {<<30, 30>>, <<35, 30>>, <<470, 270>>}

BossPoints == {<<30, 30>>, <<30, 35>>, <<475, 270>>}

MountingInputs ==
    {[pcb |-> [PCBSpec EXCEPT !.mounting_holes = h],
      enclosure |-> [EnclosureSpec EXCEPT !.boss_positions = b],
      tolerance |-> t] :
        h \in {<<>>} \cup SeqsUpTo(HolePoints, MaxHoles),
        b \in {<<>>} \cup SeqsUpTo(BossPoints, MaxHoles),
        t \in {DefaultTolerance, 0}}

\* A check result of the given status.
CheckResult(status) ==
    [name |-> "check", status |-> status, message |-> "message", details |-> <<>>]

\* Every list of check results.
ResultLists ==
    {<<>>} \cup
    {[i \in 1..Len(s) |-> CheckResult(s[i])] :
        s \in SeqsUpTo({"OK", "WARNING", "ERROR"}, MaxResults)}

\* ---- skidl_runner.generate_bom on a circuit's parts
\* A part of default_circuit.  `ref` stands for the reference designator by
\* its rank in string order; SKiDL keeps the references of one circuit unique.
Refs == 1..MaxParts
\* The kinds of part: each of name, value and footprint tells two of them apart.
PartTypes ==
    { [name |-> "R", value |-> "10K", footprint |-> ""],
      [name |-> "R", value |-> "1K", footprint |-> ""],
      [name |-> "R", value |-> "10K", footprint |-> "0805"],
      [name |-> "C", value |-> "10K", footprint |-> ""] }
\* circuit.parts: up to MaxParts parts with distinct references, in any order.
PartLists ==
    UNION {{[i \in 1..k |-> [ref |-> r[i], name |-> t[i].name, value |-> t[i].value,
                             footprint |-> t[i].footprint]] :
              r \in {f \in [1..k -> Refs] : \A i, j \in 1..k : i # j => f[i] # f[j]},
              t \in [1..k -> PartTypes]} : k \in 0..MaxParts}

\* Faulty variant of PartKey: the footprint is left out of the key.
PartKeyNameValue(part) == <<part.name, part.value, "">>

\* key = (part.name, part.value, getattr(part, 'footprint', ''))
PartKey(part) == <<part.name, part.value, part.footprint>>

\* One pass of the loop over circuit.parts: parts_dict as the list of its
\* entries in insertion order.
CollectPart(parts_dict, part) ==
    LET key == PartKey(part)
        known == \E k \in 1..Len(parts_dict) : parts_dict[k].key = key
        dict == IF known THEN parts_dict
                ELSE Append(parts_dict,
                            [key |-> key, name |-> part.name, value |-> part.value,
                             footprint |-> part.footprint, quantity |-> 0,
                             references |-> <<>>])
    IN  [k \in 1..Len(dict) |->
            IF dict[k].key = key
            THEN [dict[k] EXCEPT !.quantity = @ + 1,
                                 !.references = Append(@, part.ref)]
            ELSE dict[k]]

RECURSIVE CollectParts(_, _)
CollectParts(parts_dict, parts) ==
    IF parts = <<>> THEN parts_dict
    ELSE CollectParts(CollectPart(parts_dict, Head(parts)), Tail(parts))

\* generate_bom(output_path): the rows written after the header row, sorted
\* by the first reference of each entry, the references of a row sorted.
generate_bom(parts) ==
    LET entries == SortSeq(CollectParts(<<>>, parts),
                           LAMBDA x, y : x.references[1] < y.references[1])
    IN  [k \in 1..Len(entries) |->
            [Reference |-> SortSeq(entries[k].references, LAMBDA a, b : a < b),
             Name |-> entries[k].name,
             Value |-> entries[k].value,
             Footprint |-> entries[k].footprint,
             Quantity |-> entries[k].quantity]]

NoBom == [rows |-> <<>>]

\* The value of local before the call returns.
NoResult == [result |-> CheckResult(None), fp |-> [none |-> 0]]

\* The summary before it is computed: result_data["overall_status"] starts
\* as "OK", and there is no report.
NoSummary ==
    [overall_status |-> "OK",
     report |-> [overall |-> None, ok_count |-> 0, warning_count |-> 0,
                 error_count |-> 0]]

InitChecks ==
    /\ \/ runner = "check_pcb_clearance" /\ args \in PcbClearanceInputs
       \/ runner = "check_height_clearance" /\ args \in HeightClearanceInputs
       \/ runner = "check_mounting_holes" /\ args \in MountingInputs
       \/ runner = "summary" /\ args \in [results : ResultLists]
       \/ runner = "generate_bom" /\ args \in [parts : PartLists]
    /\ pc = "call"
    /\ local = CASE runner = "summary" -> NoSummary
                 [] runner = "generate_bom" -> NoBom
                 [] OTHER -> NoResult
    /\ env = [input_exists |-> TRUE]
    /\ result_data = [errors |-> <<>>]
    /\ stderr = <<>>
    /\ json_out = FALSE
    /\ fs = [out_dir |-> FALSE, script_run |-> FALSE, files |-> {}]
    /\ exit_status = 0
    /\ raised = <<>>
    /\ stages = <<>>

\* The call returns the check result.
Returned(where, result, fp) ==
    /\ Ran(where)
    /\ local' = [result |-> result, fp |-> fp]
    /\ pc' = "returned"
    /\ UNCHANGED <<runner, args, env, result_data, stderr, json_out, fs,
                   exit_status, raised>>

\* check_pcb_clearance(pcb, enclosure, min_clearance)
CheckPcbClearance ==
    /\ runner = "check_pcb_clearance" /\ pc = "call"
    /\ \E fp \in PcbRoundings(args.pcb, args.enclosure) :
         Returned("check_pcb_clearance",
                  check_pcb_clearance(args.pcb, args.enclosure,
                                      args.min_clearance, fp), fp)

\* check_height_clearance(pcb, enclosure, min_clearance)
CheckHeightClearance ==
    /\ runner = "check_height_clearance" /\ pc = "call"
    /\ \E fp \in HeightRoundings(args.pcb, args.enclosure, args.min_clearance) :
         Returned("check_height_clearance",
                  check_height_clearance(args.pcb, args.enclosure,
                                         args.min_clearance, fp), fp)

\* check_mounting_holes(pcb, enclosure, tolerance)
CheckMountingHoles ==
    /\ runner = "check_mounting_holes" /\ pc = "call"
    /\ Returned("check_mounting_holes",
                check_mounting_holes(args.pcb, args.enclosure, args.tolerance),
                [none |-> 0])

\* main: if any(r.status == "ERROR" ...): ... elif any(r.status == "WARNING" ...)
SummaryOverall ==
    /\ runner = "summary" /\ pc = "call"
    /\ Ran("overall_status")
    /\ local' = [local EXCEPT !.overall_status = OverallStatus(args.results)]
    /\ pc' = "report"
    /\ UNCHANGED <<runner, args, env, result_data, stderr, json_out, fs,
                   exit_status, raised>>

\* generate_report(spec_path, pcb, enclosure, results, report_path)
SummaryReport ==
    /\ runner = "summary" /\ pc = "report"
    /\ Ran("generate_report")
    /\ local' = [local EXCEPT !.report = generate_report(args.results)]
    /\ pc' = "returned"
    /\ UNCHANGED <<runner, args, env, result_data, stderr, json_out, fs,
                   exit_status, raised>>

\* generate_bom(bom_path)
GenerateBom ==
    /\ runner = "generate_bom" /\ pc = "call"
    /\ Ran("generate_bom")
    /\ local' = [rows |-> generate_bom(args.parts)]
    /\ pc' = "returned"
    /\ UNCHANGED <<runner, args, env, result_data, stderr, json_out, fs,
                   exit_status, raised>>

NextChecks ==
    \/ GenerateBom
    \/ CheckPcbClearance
    \/ CheckHeightClearance
    \/ CheckMountingHoles
    \/ SummaryOverall
    \/ SummaryReport

SpecChecks == InitChecks /\ [][NextChecks]_vars

\* ------------------------------------------------------------------ claims

Exited == pc = "exited"

\* Some line on standard error carries the text.
OnStderr(text) == \E k \in 1..Len(stderr) : text \in Range(stderr[k])

\* An exception reached main's except Exception.
ReachedTopLevel == \E i \in 1..Len(raised) : raised[i].handled = "top"

\* C1: in every runner, an exception that propagates to the top-level try of
\* main has its message appended to result_data['errors'] and written to
\* standard error, and the process exits with status 1, never 0.
C1_TopLevelExceptionReported ==
    \A i \in 1..Len(raised) :
        raised[i].handled = "top" =>
            /\ Exited /\ exit_status = 1
            /\ raised[i].exc \in Range(result_data.errors)
            /\ <<"Error: ", raised[i].exc>> \in Range(stderr)

C1_Witness ==
    /\ runner = "integration_checker"
    /\ Exited
    /\ \E i \in 1..Len(raised) :
         raised[i].handled = "top" /\ raised[i].where = "write_text"

\* C2 as claimed: in cadquery_runner every exception raised by a wrapped library
\* call (script loading, shape validation, per-format export, preview
\* generation) is reported on standard error and the run ends non-zero.
C2_EveryExceptionFailsRun ==
    (runner = "cadquery_runner" /\ Exited) =>
        \A i \in 1..Len(raised) :
            raised[i].where \in {"load_script", "exec_module", "validate_shape",
                                 "export", "generate_preview"}
            => (exit_status = 1 /\ OnStderr(raised[i].exc))

\* C2 amended: in cadquery_runner an exception that propagates to main (script
\* loading, creating the output directory) is echoed to standard error and
\* the run exits 1.  One raised by a per-format export or by preview generation
\* is caught where it is raised and reported on standard error; one raised in
\* shape validation is caught and recorded in validation['errors'], and shows
\* on standard error exactly when the shape is left marked not valid.  None of
\* the caught ones changes the exit status: the run exits 1 exactly when the
\* input is missing, the import fails or an exception reaches main.
C2_CaughtWhereRaised ==
    runner = "cadquery_runner" =>
        /\ \A i \in 1..Len(raised) :
             LET r == raised[i]
             IN  /\ r.handled = "top" =>
                       /\ Exited /\ exit_status = 1
                       /\ <<"Error: ", r.exc>> \in Range(stderr)
                 /\ r.where = "export" =>
                       <<"Error exporting ", r.fmt, ": ", r.exc>> \in Range(stderr)
                 /\ r.where = "generate_preview" =>
                       \/ <<"Error generating preview: ", r.exc>> \in Range(stderr)
                       \/ <<"Preview generation requires additional libraries: ",
                            r.exc>> \in Range(stderr)
                 /\ r.where = "validate_shape" =>
                       /\ r.exc \in Range(result_data.validation.errors)
                       /\ OnStderr(r.exc) <=> ~result_data.validation.valid
        /\ Exited =>
             (exit_status = 1 <=>
                \/ ~env.input_exists
                \/ \E i \in 1..Len(raised) : raised[i].handled \in {"top", "import"})

C2_Witness ==
    /\ runner = "cadquery_runner"
    /\ Exited /\ exit_status = 0
    /\ \E i \in 1..Len(raised) : raised[i].where = "export"
    /\ \E i \in 1..Len(raised) : raised[i].where = "generate_preview"
    /\ \E i \in 1..Len(raised) : raised[i].where = "validate_shape"

\* C3 as claimed: when isValid() returns false, the message is recorded in
\* result_data['errors'], echoed to standard error, and the run exits non-zero.
C3_InvalidShapeFailsRun ==
    (runner = "cadquery_runner" /\ Exited /\ local.is_valid = "False") =>
        /\ exit_status = 1
        /\ "shape is invalid" \in Range(result_data.errors)
        /\ OnStderr("shape is invalid")

\* C3 amended: when isValid() returns false, the flat string message is
\* recorded in result_data['validation']['errors'] (not result_data['errors'])
\* and echoed to standard error in the "Shape validation failed" warning; the
\* run goes on to the export, and exits 1 only if an exception reaches main.
C3_InvalidShapeIsWarning ==
    (runner = "cadquery_runner" /\ local.is_valid = "False") =>
        /\ ~result_data.validation.valid
        /\ "shape is invalid" \in Range(result_data.validation.errors)
        /\ \E k \in 1..Len(stderr) :
             /\ stderr[k][1] = "Warning: Shape validation failed: "
             /\ "shape is invalid" \in Range(stderr[k])
        /\ "shape is invalid" \notin Range(result_data.errors)
        /\ Exited => "export" \in Range(stages)
        /\ Exited => (exit_status = 1 <=> ReachedTopLevel)

C3_Witness ==
    /\ runner = "cadquery_runner"
    /\ local.is_valid = "False"
    /\ Exited /\ exit_status = 0
    /\ result_data.exported_files # <<>>

\* parse_spec_file returned to main.
ParseReturned ==
    /\ runner = "integration_checker"
    /\ "parse" \in Range(stages)
    /\ \A i \in 1..Len(raised) : raised[i].where # "read_text"

\* A pattern parse_spec_file looks for does not occur in the spec file.
PatternMissing ==
    \E f \in {"pcb_size", "pcb_thickness", "enc_size", "boss_height",
              "component_height", "holes"} : env.content[f] = <<>>

\* C4 as claimed: when the spec file lacks a pattern the parser looks for, a
\* 'spec pattern not found' failure is surfaced as an error message (error
\* list and standard error) and the run exits non-zero.
C4_MissingPatternFailsRun ==
    (ParseReturned /\ PatternMissing /\ Exited) =>
        /\ exit_status = 1
        /\ result_data.errors # <<>>
        /\ stderr # <<>>

\* C4 amended: when the spec file lacks a pattern, parse_spec_file reports
\* nothing: the field keeps its dataclass default (0.0, thickness 1.6, no
\* mounting holes), nothing is added to the error list or standard error, the
\* checks run on those values, and the run exits 1 only if writing the report
\* raises.
C4_MissingPatternKeepsDefault ==
    ParseReturned =>
        LET content == env.content
            pcb == local.parsed.pcb
            enclosure == local.parsed.enclosure
        IN  /\ content.pcb_size = <<>> => pcb.width = 0 /\ pcb.depth = 0
            /\ content.pcb_thickness = <<>> => pcb.thickness = DefaultThickness
            /\ content.enc_size = <<>> =>
                 /\ enclosure.internal_width = 0
                 /\ enclosure.internal_depth = 0
                 /\ enclosure.internal_height = 0
            /\ content.boss_height = <<>> => enclosure.boss_height = 0
            /\ content.component_height = <<>> => pcb.max_component_height = 0
            /\ content.holes = <<>> => pcb.mounting_holes = <<>>
            /\ pc = "checks" => stderr = <<>> /\ result_data.errors = <<>>
            /\ Exited => "checks" \in Range(stages)
            /\ Exited =>
                 (exit_status = 1 <=>
                    \E i \in 1..Len(raised) : raised[i].where = "write_text")

C4_Witness ==
    /\ ParseReturned
    /\ \A f \in {"pcb_size", "pcb_thickness", "enc_size", "boss_height",
                 "component_height", "holes"} : env.content[f] = <<>>
    /\ Exited /\ exit_status = 0
    /\ stderr = <<>>

\* C5: if the library a runner depends on cannot be imported, the runner
\* prints an error to standard error and exits with status 1 before the user
\* script is loaded and before any artifact is written.
C5_ImportFailureExitsEarly ==
    \A i \in 1..Len(raised) :
        raised[i].handled = "import" =>
            /\ Exited /\ exit_status = 1
            /\ stderr # <<>>
            /\ stderr[Len(stderr)][1] \in {"Error: CadQuery is not installed",
                                           "Error: SKiDL is not installed",
                                           "Error: PySpice is not installed",
                                           "Error: schemdraw is not installed"}
            /\ ~fs.script_run
            /\ fs.files = {}
            /\ "load" \notin Range(stages)

C5_Witness ==
    /\ runner = "schemdraw_render"
    /\ Exited
    /\ \E i \in 1..Len(raised) :
         raised[i].handled = "import" /\ raised[i].where = "import skidl"

\* C6: in every runner, if the input path does not exist, the run prints an
\* error to standard error and exits with status 1 without creating the output
\* directory, without loading any script and without writing any output file.
C6_MissingInputExitsClean ==
    (~env.input_exists /\ stages # <<>>) =>
        /\ Exited /\ exit_status = 1
        /\ stages = <<"check_input">>
        /\ Len(stderr) = 1
        /\ ~fs.out_dir
        /\ ~fs.script_run
        /\ fs.files = {}

C6_Witness ==
    /\ runner = "pyspice_sim"
    /\ ~env.input_exists
    /\ Exited

\* No stage of main ran twice.
NoStageTwice ==
    \A i, j \in 1..Len(stages) : stages[i] = stages[j] => i = j

\* C10: every run of every runner is a single pass that terminates: each stage
\* runs at most once and the run reaches exactly one terminal state, exit
\* status 0 or exit status 1, and stays there.
C10_SinglePassTerminates ==
    /\ <>Exited
    /\ [](NoStageTwice)
    /\ [](Exited => exit_status \in {0, 1})
    /\ [][Exited => (Exited' /\ exit_status' = exit_status)]_vars

C10_Witness ==
    /\ runner = "skidl_runner"
    /\ Exited /\ exit_status = 0
    /\ stages = <<"check_input", "import", "load", "circuit_info", "erc",
                  "netlist", "bom", "finish">>

\* C7: load_script and load_circuit return the value of the first listed name
\* the module defines, whatever other names it defines, and raise ValueError
\* exactly when the module defines none of the listed names.
C7_FirstDefinedOrValueError ==
    \A names \in {CqResultNames, SpiceResultNames} :
        (/\ runner = (IF names = CqResultNames THEN "load_script" ELSE "load_circuit")
         /\ pc \in {"returned", "raised"})
        => LET defined == {i \in 1..Len(names) : names[i] \in DOMAIN env.module}
           IN  /\ (pc = "raised" /\ local.exc = "ValueError") <=> (defined = {})
               /\ \A i \in defined :
                      (\A j \in defined : i <= j)
                      => (pc = "returned" /\ local.value = env.module[names[i]])

\* A script with result = None and model bound to an object was loaded.
C7_Witness ==
    /\ runner = "load_script"
    /\ pc = "raised"
    /\ "result" \in DOMAIN env.module /\ env.module["result"] = None
    /\ "model" \in DOMAIN env.module /\ env.module["model"] = "v1"
    /\ local.exc = "ValueError"

\* C8: round_to_e24 returns the nearest E24 value: no member of the series
\* (a listed mantissa times a power of ten, here 0.01 ohm and up) is strictly
\* closer to the value than the result, also just below a decade boundary
\* and below 1 ohm.  Distances are scaled by 1000 * value.den.
C8_RoundsToNearest ==
    (runner = "round_to_e24" /\ pc = "returned")
    => \A i \in 1..Len(E24), e \in 0..(MaxDecade + 3) :
           Abs(E24[i] * Pow10(e) * args.value.den - 1000 * args.value.num)
           >= Abs(100 * local.result * args.value.den - 1000 * args.value.num)

\* round_to_e24(9.8) returned 9.1.
C8_Witness ==
    /\ runner = "round_to_e24"
    /\ pc = "returned"
    /\ args.value = [num |-> 980, den |-> 100, below |-> FALSE]
    /\ local.result = 91

\* The template has computed ACTUAL_VOUT.
DividerDone == runner = "voltage_divider" /\ pc = "done"

\* |ACTUAL_VOUT - VOUT_VOLTAGE| is at most percent % of VOUT_VOLTAGE.
WithinPercent(percent) ==
    100 * Abs(10 * local.ACTUAL_VOUT.num - args.VOUT_VOLTAGE * local.ACTUAL_VOUT.den)
    <= percent * args.VOUT_VOLTAGE * local.ACTUAL_VOUT.den

\* C9 as stated: for all 0 < VOUT_VOLTAGE < VIN_VOLTAGE and every positive
\* DIVIDER_CURRENT, ACTUAL_VOUT is within 5% of VOUT_VOLTAGE.
C9_WithinFivePercent == DividerDone => WithinPercent(5)

\* C9, amended: ACTUAL_VOUT lies strictly between 0 and VIN_VOLTAGE, and when
\* both computed resistances are at least 1 ohm it is within 18% of
\* VOUT_VOLTAGE; no 5% bound holds, and below 1 ohm no bound at all.
C9_DividerOutputBounds ==
    DividerDone
    => /\ local.ACTUAL_VOUT.num > 0
       /\ 10 * local.ACTUAL_VOUT.num < args.VIN_VOLTAGE * local.ACTUAL_VOUT.den
       /\ (/\ local.R1_VALUE.num >= local.R1_VALUE.den
           /\ local.R2_VALUE.num >= local.R2_VALUE.den)
          => WithinPercent(18)

\* VIN 5.0 V, VOUT 0.5 V, 1 mA: 4500 and 500 ohm round to 4300 and 510 ohm,
\* and the output is more than 5% off.
C9_Witness ==
    /\ DividerDone
    /\ args = [VIN_VOLTAGE |-> 50, VOUT_VOLTAGE |-> 5, DIVIDER_CURRENT |-> 1]
    /\ local.R1_ROUNDED = 43000
    /\ local.R2_ROUNDED = 5100
    /\ ~WithinPercent(5)
    /\ WithinPercent(18)

\* The statuses of a list of check results.
Statuses(results) == {results[i].status : i \in 1..Len(results)}

\* C11: overall_status is ERROR iff at least one check result is ERROR,
\* WARNING iff none is ERROR and at least one is WARNING, and OK iff all check
\* results are OK.
C11_OverallStatusIsWorst ==
    (runner = "summary" /\ pc \in {"report", "returned"})
    => LET found == Statuses(args.results)
           overall == local.overall_status
       IN  /\ overall = "ERROR" <=> "ERROR" \in found
           /\ overall = "WARNING" <=> ("ERROR" \notin found /\ "WARNING" \in found)
           /\ overall = "OK" <=> found \subseteq {"OK"}

\* Three check results, one of each status, were summarised as ERROR.
C11_Witness ==
    /\ runner = "summary"
    /\ pc = "returned"
    /\ Len(args.results) = 3
    /\ Statuses(args.results) = {"OK", "WARNING", "ERROR"}
    /\ local.overall_status = "ERROR"

\* check_pcb_clearance has returned.
PcbReturned == runner = "check_pcb_clearance" /\ pc = "returned"

\* The computed width_clearance is below the limit.
WidthBelow(limit) ==
    Below(args.enclosure.internal_width - args.pcb.width, local.fp.width, 2 * limit)

\* The computed depth_clearance is below the limit.
DepthBelow(limit) ==
    Below(args.enclosure.internal_depth - args.pcb.depth, local.fp.depth, 2 * limit)

\* C12 as stated: check_pcb_clearance returns ERROR iff either clearance is
\* negative, WARNING iff both are >= 0 and at least one is < min_clearance,
\* and OK iff both are >= min_clearance.
C12_PcbClearanceAsStated ==
    PcbReturned
    => LET status == local.result.status
           min == args.min_clearance
       IN  /\ status = "ERROR" <=> (WidthBelow(0) \/ DepthBelow(0))
           /\ status = "WARNING" <=> /\ ~WidthBelow(0) /\ ~DepthBelow(0)
                                     /\ WidthBelow(min) \/ DepthBelow(min)
           /\ status = "OK" <=> (~WidthBelow(min) /\ ~DepthBelow(min))

\* C12, amended: check_pcb_clearance returns ERROR iff either computed
\* clearance is negative, WARNING iff both are >= 0 and at least one is
\* < min_clearance, and OK iff both are >= 0 and both are >= min_clearance (for
\* min_clearance >= 0: iff both are >= min_clearance).  A computed clearance
\* exactly equal to min_clearance is OK for the side it belongs to, and one
\* exactly 0 is not an ERROR.
C12_PcbClearanceOutcome ==
    PcbReturned
    => LET status == local.result.status
           min == args.min_clearance
       IN  /\ status \in {"ERROR", "WARNING", "OK"}
           /\ status = "ERROR" <=> (WidthBelow(0) \/ DepthBelow(0))
           /\ status = "WARNING" <=> /\ ~WidthBelow(0) /\ ~DepthBelow(0)
                                     /\ WidthBelow(min) \/ DepthBelow(min)
           /\ status = "OK" <=> /\ ~WidthBelow(0) /\ ~DepthBelow(0)
                                /\ ~WidthBelow(min) /\ ~DepthBelow(min)
           /\ min >= 0 => (status = "OK" <=> (~WidthBelow(min) /\ ~DepthBelow(min)))

\* A width clearance computed exactly equal to the default min_clearance, from
\* decimals that are not exactly representable, with the answer OK.
C12_Witness ==
    /\ PcbReturned
    /\ args.min_clearance = DefaultClearance
    /\ args.pcb.width = 503
    /\ args.enclosure.internal_width - args.pcb.width = 2 * DefaultClearance
    /\ local.fp.width = 0
    /\ local.result.status = "OK"

\* check_height_clearance has returned.
HeightReturned == runner = "check_height_clearance" /\ pc = "returned"

\* boss_height + pcb.thickness + max_component_height, in exact arithmetic.
StackHeight ==
    args.enclosure.boss_height + args.pcb.thickness + args.pcb.max_component_height

\* available_height >= required_height, with required_height as computed.
HeightAvailable ==
    LET required == StackHeight + args.min_clearance
        available == args.enclosure.internal_height
    IN  available > required \/ (available = required /\ local.fp.required <= 0)

\* internal_height < boss_height + pcb.thickness + max_component_height, as
\* computed.
HeightShort ==
    Below(args.enclosure.internal_height - StackHeight, local.fp.clearance, 0)

\* C13: check_height_clearance returns OK iff available_height >=
\* required_height, ERROR iff internal_height < boss_height + pcb.thickness +
\* max_component_height, and WARNING in every remaining case; the three
\* outcomes are mutually exclusive and exhaustive for all inputs.
C13_HeightOutcome ==
    HeightReturned
    => LET status == local.result.status
       IN  /\ status = "OK" <=> HeightAvailable
           /\ status = "ERROR" <=> HeightShort
           /\ status = "WARNING" <=> (~HeightAvailable /\ ~HeightShort)
           /\ ~(HeightAvailable /\ HeightShort)

\* Boss 2.0, board 1.6, components 10.8, internal height 16.4, min_clearance
\* 2.0: the height is exactly the required 16.4 and the answer is WARNING.
C13_Witness ==
    /\ HeightReturned
    /\ args.enclosure.boss_height = 20
    /\ args.pcb.thickness = 16
    /\ args.pcb.max_component_height = 108
    /\ args.enclosure.internal_height = 164
    /\ args.min_clearance = 20
    /\ local.fp = [clearance |-> -1, required |-> 0]
    /\ local.result.status = "WARNING"

\* check_mounting_holes has returned.
MountingReturned == runner = "check_mounting_holes" /\ pc = "returned"

\* The indices of the PCB holes with no boss at distance <= tolerance.
Unmatched ==
    {i \in 1..Len(args.pcb.mounting_holes) :
        \A k \in 1..Len(args.enclosure.boss_positions) :
            ~WithinTolerance(args.pcb.mounting_holes[i],
                             args.enclosure.boss_positions[k], args.tolerance)}

\* Every hole can be given a boss of its own within tolerance.
OneToOne ==
    LET holes == args.pcb.mounting_holes
        bosses == args.enclosure.boss_positions
    IN  \E f \in [1..Len(holes) -> 1..Len(bosses)] :
            /\ \A i, j \in 1..Len(holes) : f[i] = f[j] => i = j
            /\ \A i \in 1..Len(holes) :
                   WithinTolerance(holes[i], bosses[f[i]], args.tolerance)

\* What C14 and its amendment share: WARNING when there are no holes or no
\* bosses; otherwise ERROR iff some hole has no boss within tolerance, the
\* reported holes being those, and OK iff every hole has one.
MountingOutcome ==
    LET status == local.result.status
    IN  IF args.pcb.mounting_holes = <<>> \/ args.enclosure.boss_positions = <<>>
        THEN status = "WARNING"
        ELSE /\ status = "ERROR" <=> Unmatched # {}
             /\ status = "ERROR" => Len(local.result.details) = Cardinality(Unmatched)
             /\ status = "OK" <=> Unmatched = {}

\* C14 as stated: the outcome above, and an OK result means a one-to-one
\* assignment of holes to bosses exists.
C14_MountingOneToOne ==
    MountingReturned
    => /\ MountingOutcome
       /\ local.result.status = "OK" => OneToOne

\* C14, amended: the outcome above; an OK result only means that every hole
\* has some boss within tolerance.  Several holes may be matched to the same
\* boss, so OK does not imply a one-to-one assignment, and bosses without a
\* hole are not reported.
C14_MountingOutcome ==
    MountingReturned
    => /\ MountingOutcome
       /\ local.result.status = "OK"
          => \A i \in 1..Len(args.pcb.mounting_holes) :
                 Matched(args.pcb.mounting_holes[i], args.enclosure.boss_positions,
                         args.tolerance)

\* Two holes 0.5 mm apart and one boss: OK at the default tolerance.
C14_Witness ==
    /\ MountingReturned
    /\ args.pcb.mounting_holes = << <<30, 30>>, <<35, 30>> >>
    /\ args.enclosure.boss_positions = << <<30, 30>> >>
    /\ args.tolerance = DefaultTolerance
    /\ local.result.status = "OK"
    /\ ~OneToOne

BomReturned == runner = "generate_bom" /\ pc = "returned"

\* The rows of the written BOM that list the reference.
RowsListing(ref) ==
    {k \in 1..Len(local.rows) : ref \in Range(local.rows[k].Reference)}

RECURSIVE SumQuantity(_)
SumQuantity(rows) ==
    IF rows = <<>> THEN 0 ELSE Head(rows).Quantity + SumQuantity(Tail(rows))

ExportReturned ==
    /\ runner = "cadquery_runner"
    /\ "export" \in Range(stages)
    /\ \A i \in 1..Len(raised) : raised[i].where # "mkdir"

\* The positions of the request whose exporter call raised.
ExportFailedAt == {raised[i].at : i \in {j \in 1..Len(raised) : raised[j].where = "export"}}

\* The requested format at position p, trimmed and lower-cased.
Requested(p) == Lower(Strip(args.format[p]))

\* The positions of the request that contribute a path, in request order.
Contributing ==
    SelectSeq([p \in 1..Len(args.format) |-> p],
              LAMBDA p : /\ Requested(p) \in {"step", "stl", "dxf", "svg"}
                         /\ p \notin ExportFailedAt)

\* C16: export_model returns exactly the paths <base_name>.<fmt> of the
\* requested formats in {step, stl, dxf, svg} (compared after trimming and
\* lower-casing) whose export did not raise, in request order; 'png' and
\* unknown formats never contribute a path, and a failure of one format does
\* not prevent the later formats from being exported.
C16_ExportedPaths ==
    ExportReturned =>
        /\ result_data.exported_files =
              [k \in 1..Len(Contributing) |-> <<"base", ".", Requested(Contributing[k])>>]
        /\ \A k \in 1..Len(result_data.exported_files) :
              result_data.exported_files[k][3] \notin {"png", "obj"}

\* The first requested format fails, the second one, given in upper case, is
\* exported all the same.
C16_Witness ==
    /\ ExportReturned
    /\ Len(args.format) = 2
    /\ args.format[2] = "STEP"
    /\ ExportFailedAt = {1}
    /\ result_data.exported_files = << <<"base", ".", "step">> >>

PreviewSucceeded == runner = "preview_generator" /\ Exited /\ exit_status = 0

C17_WitnessSingle ==
    /\ PreviewSucceeded
    /\ ~args.all_views /\ args.view = "back"
    /\ local.rendered[1].camera = <<0, 180>>
    /\ result_data.exported_files = << <<"base", "-preview.png">> >>

\* The stages of skidl_runner's main, in program order.
SkStages ==
    <<"check_input", "import", "load", "circuit_info", "erc", "netlist", "bom", "finish">>

SkSucceeded == runner = "skidl_runner" /\ Exited /\ exit_status = 0

\* The stage is behind main: a later one was entered.
SkPassed(stage) == \E k \in 1..(Len(stages) - 1) : stages[k] = stage

\* run_erc() was called and has returned its result, passed or not.
ErcReturned == "erc" \in DOMAIN result_data /\ result_data.erc.ran

\* C18: skidl_runner's main runs its stages in a fixed order: script load,
\* circuit info, ERC (skipped iff --no-erc), netlist, BOM (iff --bom).  The
\* netlist is generated also when the ERC result has passed = False, and such
\* a run exits 0.  On success exported_files lists the .net file first, then
\* the -bom.csv file iff --bom was given.
C18_StageOrder ==
    runner = "skidl_runner" =>
        /\ stages = SubSeq(SkStages, 1, Len(stages))
        /\ SkPassed("erc") => (ErcReturned <=> ~args.no_erc)
        /\ (Exited /\ ErcReturned) => "netlist" \in Range(stages)
        /\ (Exited /\ exit_status = 1 /\ env.input_exists) =>
              \E i \in 1..Len(raised) :
                  /\ raised[i].handled \in {"top", "import", "uncaught"}
                  /\ raised[i].where # "ERC"
        /\ (\E i \in 1..Len(raised) : raised[i].where = "generate_bom") => args.bom
        /\ <<"base", "-bom.csv">> \in fs.files => args.bom
        /\ SkSucceeded =>
              /\ stages = SkStages
              /\ result_data.exported_files =
                    << <<"base", ".net">> >>
                    \o (IF args.bom THEN << <<"base", "-bom.csv">> >> ELSE <<>>)
              /\ fs.files = Range(result_data.exported_files)

\* A run whose ERC did not pass: netlist and BOM are written and it exits 0.
C18_Witness ==
    /\ SkSucceeded
    /\ ErcReturned /\ ~result_data.erc.passed
    /\ args.bom
    /\ result_data.exported_files = << <<"base", ".net">>, <<"base", "-bom.csv">> >>

SummaryReturned == runner = "summary" /\ pc = "returned"

\* C19: for every list of check results the verdict of the report agrees with
\* the overall_status main computes (fail iff ERROR, conditional pass iff
\* WARNING, pass iff OK), and the three counts of the report sum to the number
\* of results.
C19_ReportAgreesWithOverall ==
    SummaryReturned =>
        /\ local.report.overall = "fail" <=> local.overall_status = "ERROR"
        /\ local.report.overall = "conditional pass" <=> local.overall_status = "WARNING"
        /\ local.report.overall = "pass" <=> local.overall_status = "OK"
        /\ local.report.ok_count + local.report.warning_count
              + local.report.error_count = Len(args.results)

\* One result of each status: the report says fail, with counts 1, 1, 1.
C19_Witness ==
    /\ SummaryReturned
    /\ Len(args.results) = 3
    /\ {args.results[i].status : i \in 1..3} = {"OK", "WARNING", "ERROR"}
    /\ args.results[1].status = "WARNING"
    /\ local.report.overall = "fail"
    /\ local.overall_status = "ERROR"
    /\ local.report.ok_count = 1 /\ local.report.warning_count = 1
    /\ local.report.error_count = 1

\* main of integration_checker has run its three checks.
ChecksRan == runner = "integration_checker" /\ "checks" \in Range(stages)

\* C20: in every integration_checker run through main, parse_spec_file leaves
\* enclosure.boss_positions empty, so the mounting-hole result is always
\* WARNING and the overall status of the checks is never OK.
C20_NeverOk ==
    runner = "integration_checker" =>
        /\ local.parsed.enclosure.boss_positions = <<>>
        /\ ChecksRan =>
              /\ local.results[3].name = "mounting_holes"
              /\ local.results[3].status = "WARNING"
              /\ result_data.checks[3].status = "WARNING"
              /\ result_data.overall_status \in {"WARNING", "ERROR"}
        /\ (Exited /\ exit_status = 0) => result_data.overall_status # "OK"

\* The file lists mounting holes, the board fits with room to spare in both
\* other checks, and the run still ends with WARNING.
C20_Witness ==
    /\ runner = "integration_checker"
    /\ Exited /\ exit_status = 0
    /\ local.parsed.pcb.mounting_holes # <<>>
    /\ local.results[1].status = "OK"
    /\ local.results[2].status = "OK"
    /\ result_data.overall_status = "WARNING"

\* The Markdown report of integration_checker.
ReportPath == <<"base", "-integration-report.md">>

\* An exception ended the run of main.
ExceptionEndedRun ==
    \E i \in 1..Len(raised) : raised[i].handled \in {"top", "uncaught"}

\* C21: the exit status of integration_checker depends only on exceptions, not
\* on the outcome of the checks: a run whose checks give overall_status ERROR
\* (a PCB that does not fit the enclosure, say) still writes the Markdown
\* report, records its path in exported_files and exits with status 0.
C21_ExitStatusIgnoresChecks ==
    (ChecksRan /\ Exited) =>
        /\ exit_status = 1 <=> ExceptionEndedRun
        /\ exit_status = 0 <=> ~ExceptionEndedRun
        /\ ~ExceptionEndedRun =>
              /\ ReportPath \in fs.files
              /\ result_data.exported_files = <<ReportPath>>
              /\ local.report.overall =
                    (CASE result_data.overall_status = "ERROR" -> "fail"
                       [] result_data.overall_status = "WARNING" -> "conditional pass"
                       [] OTHER -> "pass")

\* The PCB is wider than the enclosure: overall ERROR, report written, exit 0.
C21_Witness ==
    /\ ChecksRan /\ Exited
    /\ local.parsed.pcb.width > local.parsed.enclosure.internal_width
    /\ local.results[1].status = "ERROR"
    /\ result_data.overall_status = "ERROR"
    /\ ReportPath \in fs.files
    /\ result_data.exported_files = <<ReportPath>>
    /\ exit_status = 0

RoundedTwice == runner = "round_twice" /\ pc = "twice"

\* The float lies in [10^k, 10^(k+1)), scale left aside.
InDecade(value, k) ==
    LET low == Pow10(k) * value.den
    IN  /\ value.num > low \/ (value.num = low /\ ~value.below)
        /\ value.num < 10 * low \/ (value.num = 10 * low /\ value.below)

\* C22: round_to_e24 is idempotent and stays within the decade of its input:
\* for every value >= 1, round_to_e24(round_to_e24(value)) =
\* round_to_e24(value), and the result lies in [10^k, 10^(k+1)) whenever
\* value does.
C22_IdempotentInDecade ==
    RoundedTwice =>
        /\ local.second = local.first
        /\ \A k \in 0..(MaxDecade + 1) :
              InDecade(args.value, k) => InDecade(AsValue(local.first), k)

\* The same for the values below 10^23 only.
C22_IdempotentWherePowersExact ==
    (RoundedTwice /\ Exponent(args.value, args.scale) <= ExactPowers) =>
        /\ local.second = local.first
        /\ \A k \in 0..(MaxDecade + 1) :
              InDecade(args.value, k) => InDecade(AsValue(local.first), k)

\* round_to_e24(1.02e23) is the float 1e23, which is less than 10^23, and
\* round_to_e24 of that is 9.1e22.
C22_Witness ==
    /\ RoundedTwice
    /\ args = [value |-> [num |-> 102, den |-> 1, below |-> FALSE], scale |-> LargeScale]
    /\ local.first = [tenths |-> 1000, scale |-> LargeScale, below |-> TRUE]
    /\ local.second = [tenths |-> 910, scale |-> LargeScale, below |-> FALSE]

====
